---- MODULE Spec2Model ----
(***************************************************************************)
(* Local pairing client of status-go (server/pairing): the pairing Client  *)
(* (client.go) and its payload managers (payload_manager.go).              *)
(*                                                                         *)
(* Byte strings are modelled symbolically as tagged records:               *)
(*   Nil                a nil []byte                                       *)
(*   Raw(v)             opaque bytes (challenges, sync blobs, garbage)     *)
(*   Enc(k, n, p)       AES-GCM ciphertext of p under key k with nonce n   *)
(*   Pb(keys, ma, pw)   the protobuf LocalPairingPayload wire form         *)
(*   Base58Encode(b)    the base58 text of b                               *)
(***************************************************************************)
EXTENDS Integers, Sequences, FiniteSets, TLC

(***************************************************************************)
(* Bounds                                                                  *)
(***************************************************************************)
\* Number of PairAccount / PairSyncDevice calls made on one Client.
MaxCalls == 2
\* Number of calls made on one Client that pushes to a remote in Receiving mode.
MaxPushCalls == 3

(***************************************************************************)
(* Program constants                                                       *)
(***************************************************************************)
StatusOK == 200
AddressLength == 40
\* Timeout of the http.Client the Client embeds: the field is left unset in
\* &http.Client{Transport: tr, Jar: cj}, and zero means no timeout.
ClientTimeout == 0

\* error values: nil, or an error with its message and, for a refused
\* response, the HTTP status line the message quotes.
Err(msg) == [msg |-> msg, status |-> ""]
NoErr == Err("nil")
\* fmt.Errorf("status not ok, received '%s'", resp.Status)
StatusErr(status) == [msg |-> "status not ok, received", status |-> status]
\* A run-time panic: the call does not return.
Panic == Err("panic: runtime error: invalid memory address or nil pointer dereference")
\* The call waits for an answer that never comes: it does not return.
Blocked == Err("blocked: waiting for a response that never comes")

Receiving == "Receiving"
Sending == "Sending"
UnknownMode == "Mode(0)"
Modes == {Receiving, Sending, UnknownMode}

pairingReceiveAccount == "pairingReceiveAccount"
pairingSendAccount == "pairingSendAccount"
pairingSyncDeviceReceive == "pairingSyncDeviceReceive"
pairingSyncDeviceSend == "pairingSyncDeviceSend"
pairingChallenge == "pairingChallenge"

EventTransferError == "transfer-error"
EventTransferSuccess == "transfer-success"
EventProcessSuccess == "process-success"
EventProcessError == "process-error"
ActionPairingAccount == "ActionPairingAccount"
ActionSyncDevice == "ActionSyncDevice"

(***************************************************************************)
(* Bytes                                                                   *)
(***************************************************************************)
Nil == [kind |-> "nil"]
Raw(v) == [kind |-> "raw", v |-> v]
Enc(k, n, p) == [kind |-> "enc", key |-> k, nonce |-> n, pt |-> p, tag |-> TRUE]
\* A ciphertext altered in transit: its authentication tag no longer verifies.
Tamper(c) == [c EXCEPT !.tag = FALSE]
\* len(b) == 0
IsEmpty(b) == b = Nil \/ b = Raw(<<>>)

\* The session keys: the Client holds ClientKey; OtherKey is any other key.
ClientKey == "k1"
OtherKey == "k2"
\* What crypto/rand may deliver as a nonce; RandFail is a failing rand.Reader.
Nonces == {"n1", "n2"}
RandFail == "rand-error"

\* common.Encrypt(plaintext, key, rand.Reader): AES-GCM with a random nonce.
common_Encrypt(plaintext, key, rnd) ==
    IF rnd = RandFail
    THEN [err |-> Err("EncryptionError"), out |-> Nil]
    ELSE [err |-> NoErr, out |-> Enc(key, rnd, plaintext)]

\* common.Decrypt(cyphertext, key): fails unless the tag verifies under key.
common_Decrypt(data, key) ==
    IF data.kind = "enc" /\ data.key = key /\ data.tag
    THEN [err |-> NoErr, out |-> data.pt]
    ELSE [err |-> Err("DecryptionError"), out |-> Nil]

\* base58.Encode / base58.Decode (btcutil): an injective text encoding.
Base58Encode(b) == [kind |-> "b58", of |-> b]
Base58Decode(s) == IF s.kind = "b58" THEN s.of ELSE Nil

(***************************************************************************)
(* EncryptionPayload and PayloadEncryptionManager                          *)
(***************************************************************************)
\* new(EncryptionPayload)
NewEncryptionPayload == [plain |-> Nil, encrypted |-> Nil, locked |-> FALSE]

NewPayloadEncryptionManager(aesKey) ==
    [aesKey |-> aesKey, toSend |-> NewEncryptionPayload, received |-> NewEncryptionPayload]

\* EncryptPlain that returns nothing when the manager is locked.
pem_EncryptPlain_respectsLock(pem, plaintext, rnd) ==
    IF pem.toSend.locked
    THEN [err |-> NoErr, out |-> Nil]
    ELSE common_Encrypt(plaintext, pem.aesKey, rnd)

pem_EncryptPlain(pem, plaintext, rnd) == common_Encrypt(plaintext, pem.aesKey, rnd)

\* A record written to the zap logger, given by the logger's name, its
\* message and the binary field of it that is named field; the record's
\* other fields are left out.
LogRecord(logger, msg, field, value) ==
    [logger |-> logger, msg |-> msg, field |-> field, value |-> value]
\* l.Debug("after common.Encrypt", ..., zap.Binary("pem.aesKey", pem.aesKey), ...)
pem_Encrypt_log(pem) ==
    {LogRecord("Encrypt()", "after common.Encrypt", "pem.aesKey", pem.aesKey)}
\* l.Debug("after common.Decrypt(data, pem.aesKey)", ..., zap.Binary("pem.aesKey", pem.aesKey), ...)
pem_Decrypt_log(pem) ==
    {LogRecord("Decrypt()", "after common.Decrypt(data, pem.aesKey)", "pem.aesKey", pem.aesKey)}

pem_Encrypt(pem, data, rnd) ==
    LET r == common_Encrypt(data, pem.aesKey, rnd)
    IN  IF r.err # NoErr
        THEN [err |-> r.err, pem |-> pem, log |-> {}]
        ELSE [err |-> NoErr,
              pem |-> [pem EXCEPT !.toSend.plain = data, !.toSend.encrypted = r.out],
              log |-> pem_Encrypt_log(pem)]

\* Decrypt that retains the ciphertext before it is authenticated.
pem_Decrypt_retainsUnverified(pem, data) ==
    LET r == common_Decrypt(data, pem.aesKey)
    IN  IF r.err # NoErr
        THEN [err |-> r.err, pem |-> [pem EXCEPT !.received.encrypted = data],
              log |-> pem_Decrypt_log(pem)]
        ELSE [err |-> NoErr,
              pem |-> [pem EXCEPT !.received.encrypted = data, !.received.plain = r.out],
              log |-> pem_Decrypt_log(pem)]

\* Decrypt that keeps the ciphertext as the plain text of the inbound slot.
pem_Decrypt_keepsCiphertext(pem, data) ==
    LET r == common_Decrypt(data, pem.aesKey)
    IN  IF r.err # NoErr
        THEN [err |-> r.err, pem |-> pem, log |-> pem_Decrypt_log(pem)]
        ELSE [err |-> NoErr,
              pem |-> [pem EXCEPT !.received.encrypted = data, !.received.plain = data],
              log |-> pem_Decrypt_log(pem)]

pem_Decrypt(pem, data) ==
    LET r == common_Decrypt(data, pem.aesKey)
    IN  IF r.err # NoErr
        THEN [err |-> r.err, pem |-> pem, log |-> pem_Decrypt_log(pem)]
        ELSE [err |-> NoErr,
              pem |-> [pem EXCEPT !.received.encrypted = data, !.received.plain = r.out],
              log |-> pem_Decrypt_log(pem)]

\* ToSend that does not look at the lock.
pem_ToSend_ignoresLock(pem) == pem.toSend.encrypted

\* ToSend that hands out the plain text of the outbound slot.
pem_ToSend_plain(pem) == IF pem.toSend.locked THEN Nil ELSE pem.toSend.plain

pem_ToSend(pem) == IF pem.toSend.locked THEN Nil ELSE pem.toSend.encrypted

\* Received that does not look at the lock.
pem_Received_ignoresLock(pem) == pem.received.plain

pem_Received(pem) == IF pem.toSend.locked THEN Nil ELSE pem.received.plain

\* ResetPayload whose fresh slots keep the lock of the old ones.
pem_ResetPayload_keepsLock(pem) ==
    [pem EXCEPT !.toSend = [NewEncryptionPayload EXCEPT !.locked = pem.toSend.locked],
                !.received = [NewEncryptionPayload EXCEPT !.locked = pem.received.locked]]

pem_ResetPayload(pem) ==
    [pem EXCEPT !.toSend = NewEncryptionPayload, !.received = NewEncryptionPayload]

lock(ep) == [ep EXCEPT !.locked = TRUE]

\* LockPayload that forgets to lock the outbound slot.
pem_LockPayload_receivedOnly(pem) == [pem EXCEPT !.received = lock(pem.received)]

\* LockPayload that forgets to lock the inbound slot.
pem_LockPayload_toSendOnly(pem) == [pem EXCEPT !.toSend = lock(pem.toSend)]

pem_LockPayload(pem) ==
    [pem EXCEPT !.toSend = lock(pem.toSend), !.received = lock(pem.received)]

(***************************************************************************)
(* AccountPayload, key files, accounts, the local keystore and database    *)
(***************************************************************************)
FileNames == {"a.json", "b.json"}
\* filepath.Walk visits the directory entries in lexical order.
FileOrder == <<"a.json", "b.json">>

\* A keystore key file: whether it parses as EncryptedKeyJSONV3, the length of
\* its address field, the password its key decrypts with, and whether the
\* recovered key is a valid extended key.
KeyFile(pw, addrLen, ext) ==
    [kind |-> "key", parses |-> TRUE, addrLen |-> addrLen, pw |-> pw, ext |-> ext]
NotAKeyFile == [kind |-> "key", parses |-> FALSE, addrLen |-> 0, pw |-> "", ext |-> FALSE]

\* *multiaccounts.Account: nil, or an account with its fields.
NilAccount == [nil |-> TRUE, KeyUID |-> "", Name |-> ""]
Account(uid, name) == [nil |-> FALSE, KeyUID |-> uid, Name |-> name]

\* map[string][]byte with no entry (a nil map and an empty map iterate alike).
EmptyKeys == [n \in {} |-> Nil]
\* AccountPayload{}
EmptyAccountPayload == [keys |-> EmptyKeys, multiaccount |-> NilAccount, password |-> ""]

\* ResetPayload of the AccountPayload that keeps the configured password.
ap_ResetPayload_keepsPassword(ap) == [EmptyAccountPayload EXCEPT !.password = ap.password]

ap_ResetPayload(ap) == EmptyAccountPayload

\* m[name] = data
MapPut(m, name, data) ==
    [n \in (DOMAIN m) \cup {name} |-> IF n = name THEN data ELSE m[n]]

\* The keystore directory tree: a set of files [dir, name, data], dir a path
\* given as the sequence of its components.
HasFile(ks, dir, name) == \E f \in ks : f.dir = dir /\ f.name = name
FileData(ks, dir, name) == (CHOOSE f \in ks : f.dir = dir /\ f.name = name).data
\* ioutil.WriteFile(filepath.Join(dir, name), data, 0600)
WriteFile(ks, dir, name, data) ==
    {f \in ks : ~(f.dir = dir /\ f.name = name)} \cup {[dir |-> dir, name |-> name, data |-> data]}

\* json.Unmarshal(rawKeyFile, &accountKey)
ParsesAsKey(data) == data.kind = "key" /\ data.parses
\* keystore.DecryptKey(key, password) succeeds
DecryptsWith(data, password) == ParsesAsKey(data) /\ data.pw = password
\* generator.ValidateKeystoreExtendedKey(k) succeeds
ValidExtendedKey(data) == data.ext

\* multiaccounts.Database: the set of saved accounts, one per key-UID.
GetAccount(db, keyUID) ==
    IF \E a \in db : a.KeyUID = keyUID
    THEN [err |-> NoErr, account |-> CHOOSE a \in db : a.KeyUID = keyUID]
    ELSE [err |-> Err("sql: no rows in result set"), account |-> NilAccount]
SaveAccount(db, account) == {a \in db : a.KeyUID # account.KeyUID} \cup {account}

(***************************************************************************)
(* AccountPayloadMarshaller                                                *)
(***************************************************************************)
\* The LocalPairingPayload wire form: the key entries in the order they were
\* appended, the account record and the password.
Pb(keys, multiaccount, password) ==
    [kind |-> "pb", keys |-> keys, multiaccount |-> multiaccount, password |-> password]
\* proto.Unmarshal of no bytes yields the empty message.
EmptyPb == Pb(<<>>, NilAccount, "")

\* The sequences that list every element of S exactly once: the orders in
\* which a Go map with key set S may be ranged over.
Orders(S) ==
    {o \in [1..Cardinality(S) -> S] : \A x \in S : \E i \in DOMAIN o : o[i] = x}
MapOrders == Orders(FileNames)

\* The order in which `for name, data := range m` visits the map m, when ord
\* is the order it would visit all of FileNames.
RangeOrder(m, ord) == SelectSeq(ord, LAMBDA n : n \in DOMAIN m)

\* accountKeysToProtobuf that keeps only the first entry the range visits.
ppm_accountKeysToProtobuf_firstOnly(ap, ord) ==
    LET o == RangeOrder(ap.keys, ord)
    IN  [i \in 1..(IF Len(o) > 1 THEN 1 ELSE Len(o)) |->
            [Name |-> o[i], Data |-> ap.keys[o[i]]]]

\* accountKeysToProtobuf ranges over the map; ord is the order of that range.
ppm_accountKeysToProtobuf(ap, ord) ==
    LET o == RangeOrder(ap.keys, ord)
    IN  [i \in 1..Len(o) |-> [Name |-> o[i], Data |-> ap.keys[o[i]]]]

\* multiaccount.ToProtobuf()
account_ToProtobuf(account) == account
\* new(multiaccounts.Account).FromProtobuf(pb): a non-nil account, with zero
\* fields when the message carries none.
account_FromProtobuf(pbAccount) == [pbAccount EXCEPT !.nil = FALSE]

ppm_MarshalToProtobuf(ap, ord) ==
    Pb(ppm_accountKeysToProtobuf(ap, ord), account_ToProtobuf(ap.multiaccount), ap.password)

RECURSIVE ppm_accountKeysFromProtobuf(_, _)
ppm_accountKeysFromProtobuf(keys, pbKeys) ==
    IF pbKeys = <<>>
    THEN keys
    ELSE ppm_accountKeysFromProtobuf(
             MapPut(keys, Head(pbKeys).Name, Head(pbKeys).Data), Tail(pbKeys))

ppm_multiaccountFromProtobuf(pbMultiAccount) == account_FromProtobuf(pbMultiAccount)

\* UnmarshalProtobuf that replaces the keys map by the received keys.
ppm_UnmarshalProtobuf_replacesKeys(ap, data) ==
    LET pb == IF IsEmpty(data) THEN EmptyPb ELSE data
    IN  IF pb.kind # "pb"
        THEN [err |-> Err("proto: cannot parse"), ap |-> ap]
        ELSE [err |-> NoErr,
              ap |-> [keys |-> ppm_accountKeysFromProtobuf(EmptyKeys, pb.keys),
                      multiaccount |-> ppm_multiaccountFromProtobuf(pb.multiaccount),
                      password |-> pb.password]]

ppm_UnmarshalProtobuf(ap, data) ==
    LET pb == IF IsEmpty(data) THEN EmptyPb ELSE data
    IN  IF pb.kind # "pb"
        THEN [err |-> Err("proto: cannot parse"), ap |-> ap]
        ELSE [err |-> NoErr,
              ap |-> [keys |-> ppm_accountKeysFromProtobuf(ap.keys, pb.keys),
                      multiaccount |-> ppm_multiaccountFromProtobuf(pb.multiaccount),
                      password |-> pb.password]]

(***************************************************************************)
(* State                                                                   *)
(***************************************************************************)
\* A Messenger that has loaded no message and written nothing.
NewMessenger == [message |-> Nil, persistence |-> <<>>]

VARIABLES
    connectionParams,  \* ConnectionParams: publicKey (pinned), aesKey, serverMode
    config,            \* PayloadSourceConfig: KeystorePath, KeyUID, Password
    serverCertPK,      \* public key of the certificate the remote presents
    client,            \* "unset" before NewPairingClient, then "ready" or "nil"
    rootCAs,           \* RootCAs of the Client's tls.Config
    serverMode,        \* Client.serverMode
    serverChallenge,   \* Client.serverChallenge
    pem,               \* the PayloadEncryptionManager of each payload manager
    accountPayload,    \* the AccountPayload shared by both managers
    rawPayload,        \* RawMessageRepository.payload
    keystore,          \* the files of the local keystore directory tree
    db,                \* the multiaccounts database
    requests,          \* the HTTP requests issued, with the answer each got
    events,            \* the events sent by signal.SendLocalPairingEvent
    handlerLog,        \* the calls made to the SyncRawMessageHandler
    calls,             \* the PairAccount / PairSyncDevice calls and their results
    ret,               \* the result of the most recent operation
    lockTrace,         \* per manager: "never" locked, "locked", or "reset" after a lock
    logged,            \* the log records written by the most recent operation
    messenger          \* the message a Messenger edits and the writes to its persistence

vars ==
    <<connectionParams, config, serverCertPK, client, rootCAs, serverMode,
      serverChallenge, pem, accountPayload, rawPayload, keystore, db, requests,
      events, handlerLog, calls, ret, lockTrace, logged, messenger>>

(***************************************************************************)
(* AccountPayloadRepository                                                *)
(***************************************************************************)
\* NewAccountPayloadRepository(p, config): the repository writes the configured
\* password into the shared payload.
NewAccountPayloadRepository(ap, cfg) == [ap EXCEPT !.password = cfg.Password]

\* The fileWalker of loadKeys applied to the immediate children of the
\* directory, in Walk's order, stopping at the first error.
RECURSIVE apr_fileWalker(_, _, _, _)
apr_fileWalker(names, ks, keyStorePath, keys) ==
    IF names = <<>>
    THEN [err |-> NoErr, keys |-> keys]
    ELSE LET name == Head(names)
         IN  IF ~HasFile(ks, keyStorePath, name)
             THEN apr_fileWalker(Tail(names), ks, keyStorePath, keys)
             ELSE LET rawKeyFile == FileData(ks, keyStorePath, name)
                  IN  IF ~ParsesAsKey(rawKeyFile)
                      THEN [err |-> Err("failed to read key file"), keys |-> keys]
                      ELSE IF rawKeyFile.addrLen # AddressLength
                      THEN [err |-> Err("account key address has invalid length"), keys |-> keys]
                      ELSE apr_fileWalker(Tail(names), ks, keyStorePath,
                                          MapPut(keys, name, rawKeyFile))

\* loadKeys that adds to the keys of an earlier load.
apr_loadKeys_keepsOldKeys(ap, ks, keyStorePath) ==
    LET w == IF keyStorePath = <<>>
             THEN [err |-> Err("lstat: no such file or directory"), keys |-> EmptyKeys]
             ELSE apr_fileWalker(FileOrder, ks, keyStorePath, ap.keys)
    IN  [err |-> IF w.err = NoErr THEN NoErr ELSE Err("cannot traverse key store folder"),
         ap |-> [ap EXCEPT !.keys = w.keys]]

apr_loadKeys(ap, ks, keyStorePath) ==
    LET w == IF keyStorePath = <<>>
             THEN [err |-> Err("lstat: no such file or directory"), keys |-> EmptyKeys]
             ELSE apr_fileWalker(FileOrder, ks, keyStorePath, EmptyKeys)
    IN  [err |-> IF w.err = NoErr THEN NoErr ELSE Err("cannot traverse key store folder"),
         ap |-> [ap EXCEPT !.keys = w.keys]]

apr_validateKeys(ap, password) ==
    IF \E n \in DOMAIN ap.keys : ~DecryptsWith(ap.keys[n], password)
    THEN Err("could not decrypt key with given password")
    ELSE IF \E n \in DOMAIN ap.keys : ~ValidExtendedKey(ap.keys[n])
    THEN Err("validation: not an extended key")
    ELSE NoErr

\* LoadFromSource that does not validate the keys it loaded.
apr_LoadFromSource_noValidation(ap, ks, database) ==
    LET l == apr_loadKeys(ap, ks, config.KeystorePath)
        g == GetAccount(database, config.KeyUID)
    IN  IF l.err # NoErr THEN [err |-> l.err, ap |-> l.ap]
        ELSE [err |-> g.err, ap |-> [l.ap EXCEPT !.multiaccount = g.account]]

apr_LoadFromSource(ap, ks, database) ==
    LET l == apr_loadKeys(ap, ks, config.KeystorePath)
        v == apr_validateKeys(l.ap, l.ap.password)
        g == GetAccount(database, config.KeyUID)
    IN  IF l.err # NoErr THEN [err |-> l.err, ap |-> l.ap]
        ELSE IF v # NoErr THEN [err |-> v, ap |-> l.ap]
        ELSE [err |-> g.err, ap |-> [l.ap EXCEPT !.multiaccount = g.account]]

\* What the disk does to one StoreToSource: every write succeeds, the first or
\* the second WriteFile fails, or the database save fails.
StoreIO == {"ok", "write1", "write2", "db"}

\* The write loop of storeKeys over the keys map, ranged in the order ord.
RECURSIVE apr_storeLoop(_, _, _, _, _, _)
apr_storeLoop(ap, ks, dir, ord, i, io) ==
    IF i > Len(ord)
    THEN [err |-> NoErr, ks |-> ks]
    ELSE LET data == ap.keys[ord[i]]
         IN  IF ~ParsesAsKey(data)
             THEN [err |-> Err("failed to read key file"), ks |-> ks]
             ELSE IF data.addrLen # AddressLength
             THEN [err |-> Err("account key address has invalid length"), ks |-> ks]
             ELSE IF (i = 1 /\ io = "write1") \/ (i = 2 /\ io = "write2")
             THEN [err |-> Err("write: input/output error"), ks |-> ks]
             ELSE apr_storeLoop(ap, WriteFile(ks, dir, ord[i], data), dir, ord, i + 1, io)

apr_storeKeys(ap, ks, keyStorePath, ord, io) ==
    IF keyStorePath = <<>>
    THEN [err |-> Err("keyStorePath can not be empty"), ks |-> ks]
    ELSE IF keyStorePath[Len(keyStorePath)] = "keystore"
    THEN IF ap.multiaccount.nil \/ ap.multiaccount.KeyUID = ""
         THEN [err |-> Err("no known Key UID"), ks |-> ks]
         ELSE apr_storeLoop(ap, ks, Append(keyStorePath, ap.multiaccount.KeyUID),
                            RangeOrder(ap.keys, ord), 1, io)
    ELSE apr_storeLoop(ap, ks, keyStorePath, RangeOrder(ap.keys, ord), 1, io)

apr_storeMultiAccount(ap, database, io) ==
    IF ap.multiaccount.nil
    THEN [err |-> Panic, db |-> database]
    ELSE IF io = "db"
    THEN [err |-> Err("database is locked"), db |-> database]
    ELSE [err |-> NoErr, db |-> SaveAccount(database, ap.multiaccount)]

\* StoreToSource that writes without validating the keys first.
apr_StoreToSource_noValidation(ap, ks, database, ord, io) ==
    LET k == apr_storeKeys(ap, ks, config.KeystorePath, ord, io)
        m == apr_storeMultiAccount(ap, database, io)
    IN  IF k.err # NoErr THEN [err |-> k.err, ks |-> k.ks, db |-> database]
        ELSE [err |-> m.err, ks |-> k.ks, db |-> m.db]

\* StoreToSource that validates with the password of the configuration.
apr_StoreToSource_configPassword(ap, ks, database, ord, io) ==
    LET v == apr_validateKeys(ap, config.Password)
        k == apr_storeKeys(ap, ks, config.KeystorePath, ord, io)
        m == apr_storeMultiAccount(ap, database, io)
    IN  IF v # NoErr THEN [err |-> v, ks |-> ks, db |-> database]
        ELSE IF k.err # NoErr THEN [err |-> k.err, ks |-> k.ks, db |-> database]
        ELSE [err |-> m.err, ks |-> k.ks, db |-> m.db]

apr_StoreToSource(ap, ks, database, ord, io) ==
    LET v == apr_validateKeys(ap, ap.password)
        k == apr_storeKeys(ap, ks, config.KeystorePath, ord, io)
        m == apr_storeMultiAccount(ap, database, io)
    IN  IF v # NoErr THEN [err |-> v, ks |-> ks, db |-> database]
        ELSE IF k.err # NoErr THEN [err |-> k.err, ks |-> k.ks, db |-> database]
        ELSE [err |-> m.err, ks |-> k.ks, db |-> m.db]

(***************************************************************************)
(* AccountPayloadManager                                                   *)
(***************************************************************************)
\* Mount that encrypts whatever the repository holds after a failed load.
apm_Mount_encryptsAfterFailedLoad(p, ap, ks, database, ord, rnd) ==
    LET l == apr_LoadFromSource(ap, ks, database)
        pb == ppm_MarshalToProtobuf(l.ap, ord)
        e == pem_Encrypt(p, pb, rnd)
    IN  IF l.err # NoErr
        THEN [err |-> l.err, pem |-> e.pem, ap |-> l.ap, log |-> e.log]
        ELSE [err |-> e.err, pem |-> e.pem, ap |-> l.ap, log |-> e.log]

\* Mount: LoadFromSource, MarshalToProtobuf, Encrypt.  ord is the order in
\* which the keys map is ranged over, rnd what rand.Reader delivers.
apm_Mount(p, ap, ks, database, ord, rnd) ==
    LET l == apr_LoadFromSource(ap, ks, database)
        pb == ppm_MarshalToProtobuf(l.ap, ord)
        e == pem_Encrypt(p, pb, rnd)
    IN  IF l.err # NoErr
        THEN [err |-> l.err, pem |-> p, ap |-> l.ap, log |-> {}]
        ELSE [err |-> e.err, pem |-> e.pem, ap |-> l.ap, log |-> e.log]

\* Receive: Decrypt, UnmarshalProtobuf(Received()), StoreToSource.
apm_Receive(p, ap, ks, database, data, ord, io) ==
    LET d == pem_Decrypt(p, data)
        u == ppm_UnmarshalProtobuf(ap, pem_Received(d.pem))
        s == apr_StoreToSource(u.ap, ks, database, ord, io)
    IN  IF d.err # NoErr
        THEN [err |-> d.err, pem |-> d.pem, ap |-> ap, ks |-> ks, db |-> database,
              log |-> d.log]
        ELSE IF u.err # NoErr
        THEN [err |-> u.err, pem |-> d.pem, ap |-> u.ap, ks |-> ks, db |-> database,
              log |-> d.log]
        ELSE [err |-> s.err, pem |-> d.pem, ap |-> u.ap, ks |-> s.ks, db |-> s.db,
              log |-> d.log]

(***************************************************************************)
(* RawMessageRepository and RawMessagePayloadManager                       *)
(***************************************************************************)
\* LoadFromSource that asks the handler without looking at the account.
r_LoadFromSource_noIdentityCheck(ap, payload, prep) ==
    LET account == ap.multiaccount
        ask == <<[fn |-> "PrepareRawMessage", keyUID |-> account.KeyUID]>>
    IN  IF prep.err # NoErr
        THEN [err |-> prep.err, payload |-> payload, asked |-> ask]
        ELSE [err |-> NoErr, payload |-> prep.payload, asked |-> ask]

\* LoadFromSource: prep is what SyncRawMessageHandler.PrepareRawMessage
\* answers when it is asked; asked lists the calls made to the handler.
r_LoadFromSource(ap, payload, prep) ==
    LET account == ap.multiaccount
        ask == <<[fn |-> "PrepareRawMessage", keyUID |-> account.KeyUID]>>
    IN  IF account.nil \/ account.KeyUID = ""
        THEN [err |-> Err("no known KeyUID when loading raw messages"),
              payload |-> payload, asked |-> <<>>]
        ELSE IF prep.err # NoErr
        THEN [err |-> prep.err, payload |-> payload, asked |-> ask]
        ELSE [err |-> NoErr, payload |-> prep.payload, asked |-> ask]

\* StoreToSource that calls the handler whether or not an account is present.
r_StoreToSource_withoutAccountCheck(ap, payload, handleErr) ==
    [err |-> handleErr,
     asked |-> <<[fn |-> "HandleRawMessage", account |-> ap.multiaccount,
                  password |-> ap.password, keystorePath |-> config.KeystorePath,
                  payload |-> payload]>>]

\* StoreToSource: handleErr is what HandleRawMessage returns when it is called.
r_StoreToSource(ap, payload, handleErr) ==
    IF ap.multiaccount.nil
    THEN [err |-> Err("no known multiaccount when storing raw messages"), asked |-> <<>>]
    ELSE [err |-> handleErr,
          asked |-> <<[fn |-> "HandleRawMessage", account |-> ap.multiaccount,
                       password |-> ap.password, keystorePath |-> config.KeystorePath,
                       payload |-> payload]>>]

rmpm_Mount(p, ap, payload, prep, rnd) ==
    LET l == r_LoadFromSource(ap, payload, prep)
        e == pem_Encrypt(p, l.payload, rnd)
    IN  IF l.err # NoErr
        THEN [err |-> l.err, pem |-> p, payload |-> l.payload, asked |-> l.asked,
              log |-> {}]
        ELSE [err |-> e.err, pem |-> e.pem, payload |-> l.payload, asked |-> l.asked,
              log |-> e.log]

rmpm_Receive(p, ap, payload, data, handleErr) ==
    LET d == pem_Decrypt(p, data)
        received == pem_Received(d.pem)
        st == r_StoreToSource(ap, received, handleErr)
    IN  IF d.err # NoErr
        THEN [err |-> d.err, pem |-> d.pem, payload |-> payload, asked |-> <<>>,
              log |-> d.log]
        ELSE [err |-> st.err, pem |-> d.pem, payload |-> received, asked |-> st.asked,
              log |-> d.log]

(***************************************************************************)
(* The remote party and the HTTP exchange                                  *)
(***************************************************************************)
\* What one request is answered with: a transport error, or a response with
\* its status and body; readErr says that reading the body fails after the
\* bytes of body were read.
TransportError ==
    [err |-> Err("dial tcp: connection refused"), StatusCode |-> 0, Status |-> "",
     body |-> Nil, readErr |-> FALSE]
Response(code, status, body, readErr) ==
    [err |-> NoErr, StatusCode |-> code, Status |-> status, body |-> body,
     readErr |-> readErr]
\* The remote accepts the connection and never answers the request.
NoAnswer ==
    [err |-> NoErr, StatusCode |-> 0, Status |-> "no response", body |-> Nil,
     readErr |-> FALSE]
\* What net/http makes of an unanswered request when Client.Timeout expires.
TimedOut ==
    [err |-> Err("context deadline exceeded (Client.Timeout exceeded while awaiting headers)"),
     StatusCode |-> 0, Status |-> "", body |-> Nil, readErr |-> FALSE]
\* What c.Do / c.Get / c.Post returns to the flow for the answer ans of the
\* remote: with a timeout set an unanswered request ends as a transport
\* error, without one it never returns.
Do(ans) == IF ans = NoAnswer /\ ClientTimeout > 0 THEN TimedOut ELSE ans
Ok(body) == Response(StatusOK, "200 OK", body, FALSE)
Refused == Response(500, "500 Internal Server Error", Nil, FALSE)
BrokenBody(body) == Response(StatusOK, "200 OK", body, TRUE)

\* The mutable state a protocol run works on: the fields of the Client and of
\* its managers, the local stores, and what has been observed of the run.
Session(n, op) ==
    [call |-> n, by |-> op, pem |-> pem, ap |-> accountPayload, raw |-> rawPayload,
     ks |-> keystore, db |-> db, challenge |-> serverChallenge,
     requests |-> requests, events |-> events, hlog |-> handlerLog,
     locks |-> lockTrace, log |-> {}]

\* c.Post / c.Do / c.Get: the request is issued and answered with ans; code
\* is the status of the answer (0 when there is none) and got the bytes of
\* the body of a 200 answer.
Issue(s, method, path, header, body, ans) ==
    [s EXCEPT !.requests =
        Append(@, [call |-> s.call, by |-> s.by, method |-> method, path |-> path,
                   header |-> header, body |-> body, code |-> ans.StatusCode,
                   got |-> IF ans.err = NoErr /\ ans.StatusCode = StatusOK
                           THEN ans.body ELSE Nil])]

\* signal.SendLocalPairingEvent(Event{Type, Error, Action})
SendLocalPairingEvent(s, type, error, action) ==
    [s EXCEPT !.events =
        Append(@, [call |-> s.call, Type |-> type, Error |-> error, Action |-> action])]

\* c.PayloadManager.LockPayload() of the manager m
LockManager(s, m) ==
    [s EXCEPT !.pem[m] = pem_LockPayload(@), !.locks[m] = "locked"]

(***************************************************************************)
(* Client: the protocol runs                                               *)
(***************************************************************************)
\* sendAccountData that does not lock the payload after a 200.
sendAccountData_accepted_noLock(s) ==
    [err |-> NoErr,
     s |-> SendLocalPairingEvent(s, EventTransferSuccess, NoErr, ActionPairingAccount)]

\* client.go 205-208: the POST was answered 200.
sendAccountData_accepted(s) ==
    [err |-> NoErr,
     s |-> LockManager(
               SendLocalPairingEvent(s, EventTransferSuccess, NoErr, ActionPairingAccount),
               "account")]

\* client.go 200-203: the status check of the account push.  The event is
\* built from err.Error() while err is nil, which panics before the event is
\* sent and before the error is returned.
sendAccountData_status(s, ans) ==
    IF ans.StatusCode # StatusOK
    THEN [err |-> Panic, s |-> s]
    ELSE sendAccountData_accepted(s)

\* sendAccountData that returns at once when the manager is locked.
c_sendAccountData_skipsWhenLocked(s, in) ==
    LET m == apm_Mount(s.pem.account, s.ap, s.ks, s.db, in.ord, in.rnd)
        s1 == [s EXCEPT !.pem.account = m.pem, !.ap = m.ap, !.log = @ \cup m.log]
        a == Do(in.ans)
        s2 == Issue(s1, "POST", pairingReceiveAccount, Nil, pem_ToSend(s1.pem.account), a)
    IN  IF s.pem.account.toSend.locked
        THEN [err |-> NoErr, s |-> s]
        ELSE IF m.err # NoErr
        THEN [err |-> m.err, s |-> s1]
        ELSE IF a = NoAnswer
        THEN [err |-> Blocked, s |-> s2]
        ELSE IF a.err # NoErr
        THEN [err |-> a.err,
              s |-> SendLocalPairingEvent(s2, EventTransferError, a.err,
                                          ActionPairingAccount)]
        ELSE sendAccountData_status(s2, a)

c_sendAccountData(s, in) ==
    LET m == apm_Mount(s.pem.account, s.ap, s.ks, s.db, in.ord, in.rnd)
        s1 == [s EXCEPT !.pem.account = m.pem, !.ap = m.ap, !.log = @ \cup m.log]
        a == Do(in.ans)
        s2 == Issue(s1, "POST", pairingReceiveAccount, Nil, pem_ToSend(s1.pem.account), a)
    IN  IF m.err # NoErr
        THEN [err |-> m.err, s |-> s1]
        ELSE IF a = NoAnswer
        THEN [err |-> Blocked, s |-> s2]
        ELSE IF a.err # NoErr
        THEN [err |-> a.err,
              s |-> SendLocalPairingEvent(s2, EventTransferError, a.err,
                                          ActionPairingAccount)]
        ELSE sendAccountData_status(s2, a)

\* sendSyncDeviceData that locks the raw-message manager after a 200.
sendSyncDeviceData_status_locks(s, ans) ==
    IF ans.StatusCode # StatusOK
    THEN [err |-> Panic, s |-> s]
    ELSE [err |-> NoErr,
          s |-> LockManager(
                    SendLocalPairingEvent(s, EventTransferSuccess, NoErr, ActionSyncDevice),
                    "raw")]

\* client.go 134-140: as in sendAccountData, err is nil when a status other
\* than 200 is reported.
sendSyncDeviceData_status(s, ans) ==
    IF ans.StatusCode # StatusOK
    THEN [err |-> Panic, s |-> s]
    ELSE [err |-> NoErr,
          s |-> SendLocalPairingEvent(s, EventTransferSuccess, NoErr, ActionSyncDevice)]

c_sendSyncDeviceData(s, in) ==
    LET m == rmpm_Mount(s.pem.raw, s.ap, s.raw, in.prep, in.rnd)
        s1 == [s EXCEPT !.pem.raw = m.pem, !.raw = m.payload, !.hlog = @ \o m.asked,
                        !.log = @ \cup m.log]
        a == Do(in.ans)
        s2 == Issue(s1, "POST", pairingSyncDeviceReceive, Nil, pem_ToSend(s1.pem.raw), a)
    IN  IF m.err # NoErr
        THEN [err |-> m.err, s |-> s1]
        ELSE IF a = NoAnswer
        THEN [err |-> Blocked, s |-> s2]
        ELSE IF a.err # NoErr
        THEN [err |-> a.err,
              s |-> SendLocalPairingEvent(s2, EventTransferError, a.err, ActionSyncDevice)]
        ELSE sendSyncDeviceData_status(s2, a)

\* A proof that encodes the challenge itself instead of its ciphertext.
challengeProof_unencrypted(s, rnd) ==
    IF s.challenge = Nil
    THEN [err |-> NoErr, header |-> Nil]
    ELSE [err |-> NoErr, header |-> Base58Encode(s.challenge)]

\* client.go 218-225 and 150-157: the challenge proof of a pull request.
\* header is Nil when the request carries no challenge header.
challengeProof(s, rnd) ==
    LET ec == pem_EncryptPlain(s.pem.account, s.challenge, rnd)
    IN  IF s.challenge = Nil
        THEN [err |-> NoErr, header |-> Nil]
        ELSE IF ec.err # NoErr
        THEN [err |-> ec.err, header |-> Nil]
        ELSE [err |-> NoErr, header |-> Base58Encode(ec.out)]

\* pullExchange that repeats the GET when the first attempt fails in transport.
pullExchange_retries(s, path, header, answer, action) ==
    LET ans == Do(answer)
        s0 == IF ans.err # NoErr THEN Issue(s, "GET", path, header, Nil, ans) ELSE s
        s1 == Issue(s0, "GET", path, header, Nil, ans)
        refused == StatusErr(ans.Status)
        readError == Err("unexpected EOF")
    IN  IF ans = NoAnswer
        THEN [err |-> Blocked, s |-> s1]
        ELSE IF ans.err # NoErr
        THEN [err |-> ans.err,
              s |-> SendLocalPairingEvent(s1, EventTransferError, ans.err, action)]
        ELSE IF ans.StatusCode # StatusOK
        THEN [err |-> refused,
              s |-> SendLocalPairingEvent(s1, EventTransferError, refused, action)]
        ELSE IF ans.readErr
        THEN [err |-> readError,
              s |-> SendLocalPairingEvent(s1, EventTransferError, readError, action)]
        ELSE [err |-> NoErr, payload |-> ans.body,
              s |-> SendLocalPairingEvent(s1, EventTransferSuccess, NoErr, action)]

\* pullExchange that does not require the status 200.
pullExchange_ignoresStatus(s, path, header, answer, action) ==
    LET ans == Do(answer)
        s1 == Issue(s, "GET", path, header, Nil, ans)
        readError == Err("unexpected EOF")
    IN  IF ans = NoAnswer
        THEN [err |-> Blocked, s |-> s1]
        ELSE IF ans.err # NoErr
        THEN [err |-> ans.err,
              s |-> SendLocalPairingEvent(s1, EventTransferError, ans.err, action)]
        ELSE IF ans.readErr
        THEN [err |-> readError,
              s |-> SendLocalPairingEvent(s1, EventTransferError, readError, action)]
        ELSE [err |-> NoErr, payload |-> ans.body,
              s |-> SendLocalPairingEvent(s1, EventTransferSuccess, NoErr, action)]

\* client.go 227-244 and 159-176: the GET of a pull and the reading of its
\* body, with the transfer events; payload is the body that was read.
pullExchange(s, path, header, answer, action) ==
    LET ans == Do(answer)
        s1 == Issue(s, "GET", path, header, Nil, ans)
        refused == StatusErr(ans.Status)
        readError == Err("unexpected EOF")
    IN  IF ans = NoAnswer
        THEN [err |-> Blocked, s |-> s1]
        ELSE IF ans.err # NoErr
        THEN [err |-> ans.err,
              s |-> SendLocalPairingEvent(s1, EventTransferError, ans.err, action)]
        ELSE IF ans.StatusCode # StatusOK
        THEN [err |-> refused,
              s |-> SendLocalPairingEvent(s1, EventTransferError, refused, action)]
        ELSE IF ans.readErr
        THEN [err |-> readError,
              s |-> SendLocalPairingEvent(s1, EventTransferError, readError, action)]
        ELSE [err |-> NoErr, payload |-> ans.body,
              s |-> SendLocalPairingEvent(s1, EventTransferSuccess, NoErr, action)]

\* The process events after Receive returned err.
processed(s, err, action) ==
    IF err # NoErr
    THEN [err |-> err, s |-> SendLocalPairingEvent(s, EventProcessError, err, action)]
    ELSE [err |-> NoErr, s |-> SendLocalPairingEvent(s, EventProcessSuccess, NoErr, action)]

c_receiveAccountData(s, in) ==
    LET h == challengeProof(s, in.rnd)
        x == pullExchange(s, pairingSendAccount, h.header, in.ans, ActionPairingAccount)
        r == apm_Receive(x.s.pem.account, x.s.ap, x.s.ks, x.s.db, x.payload, in.ord, in.io)
    IN  IF h.err # NoErr THEN [err |-> h.err, s |-> s]
        ELSE IF x.err # NoErr THEN x
        ELSE processed([x.s EXCEPT !.pem.account = r.pem, !.ap = r.ap, !.ks = r.ks,
                                   !.db = r.db, !.log = @ \cup r.log],
                       r.err, ActionPairingAccount)

\* receiveSyncDeviceData that attaches no challenge proof.
c_receiveSyncDeviceData_noProof(s, in) ==
    LET x == pullExchange(s, pairingSyncDeviceSend, Nil, in.ans, ActionSyncDevice)
        r == rmpm_Receive(x.s.pem.raw, x.s.ap, x.s.raw, x.payload, in.handle)
    IN  IF x.err # NoErr THEN x
        ELSE processed([x.s EXCEPT !.pem.raw = r.pem, !.raw = r.payload,
                                   !.hlog = @ \o r.asked, !.log = @ \cup r.log],
                       r.err, ActionSyncDevice)

c_receiveSyncDeviceData(s, in) ==
    LET h == challengeProof(s, in.rnd)
        x == pullExchange(s, pairingSyncDeviceSend, h.header, in.ans, ActionSyncDevice)
        r == rmpm_Receive(x.s.pem.raw, x.s.ap, x.s.raw, x.payload, in.handle)
    IN  IF h.err # NoErr THEN [err |-> h.err, s |-> s]
        ELSE IF x.err # NoErr THEN x
        ELSE processed([x.s EXCEPT !.pem.raw = r.pem, !.raw = r.payload,
                                   !.hlog = @ \o r.asked, !.log = @ \cup r.log],
                       r.err, ActionSyncDevice)

c_getChallenge(s, answer) ==
    LET ans == Do(answer)
        s1 == Issue(s, "GET", pairingChallenge, Nil, Nil, ans)
    IN  IF ans = NoAnswer
        THEN [err |-> Blocked, s |-> s1]
        ELSE IF ans.err # NoErr
        THEN [err |-> ans.err, s |-> s1]
        ELSE IF ans.StatusCode # StatusOK
        THEN [err |-> StatusErr(ans.Status), s |-> s1]
        ELSE [err |-> IF ans.readErr THEN Err("unexpected EOF") ELSE NoErr,
              s |-> [s1 EXCEPT !.challenge = ans.body]]

\* PairAccount that treats an unrecognised mode as Receiving.
c_PairAccount_defaultSends(s, mode, in) ==
    CASE mode = Sending ->
            LET g == c_getChallenge(s, in.chal)
            IN  IF g.err # NoErr THEN g ELSE c_receiveAccountData(g.s, in)
      [] OTHER -> c_sendAccountData(s, in)

c_PairAccount(s, mode, in) ==
    CASE mode = Receiving -> c_sendAccountData(s, in)
      [] mode = Sending ->
            LET g == c_getChallenge(s, in.chal)
            IN  IF g.err # NoErr THEN g ELSE c_receiveAccountData(g.s, in)
      [] OTHER -> [err |-> Err("unrecognised server mode"), s |-> s]

\* PairSyncDevice that fetches a challenge of its own in Sending mode.
c_PairSyncDevice_withChallenge(s, mode, in) ==
    CASE mode = Receiving -> c_sendSyncDeviceData(s, in)
      [] mode = Sending ->
            LET g == c_getChallenge(s, in.chal)
            IN  IF g.err # NoErr THEN g ELSE c_receiveSyncDeviceData(g.s, in)
      [] OTHER -> [err |-> Err("unrecognised server mode"), s |-> s]

\* PairSyncDevice that pushes whatever the mode is.
c_PairSyncDevice_alwaysSends(s, mode, in) ==
    CASE mode \in {Receiving, Sending} -> c_sendSyncDeviceData(s, in)
      [] OTHER -> [err |-> Err("unrecognised server mode"), s |-> s]

c_PairSyncDevice(s, mode, in) ==
    CASE mode = Receiving -> c_sendSyncDeviceData(s, in)
      [] mode = Sending -> c_receiveSyncDeviceData(s, in)
      [] OTHER -> [err |-> Err("unrecognised server mode"), s |-> s]

(***************************************************************************)
(* Trust bootstrap: NewPairingClient                                       *)
(***************************************************************************)
PinnedKey == "pk-server"
ForeignKey == "pk-other"
ServerCert == "server-cert"
\* x509.SystemCertPool(): the certificate-authority roots installed on the host.
SystemCertPool == {"system-root-CA"}

\* verifyCert(serverCert, c.publicKey): the certificate's public key must be
\* the pinned one.
verifyCert(certPK, publicKey) ==
    IF certPK = publicKey THEN NoErr ELSE Err("server certificate MUST match the given public key")

\* trustBootstrap without the check of the certificate against the pinned key.
trustBootstrap_noVerify(certPK, publicKey, fetchErr, systemPool) ==
    IF fetchErr # NoErr
    THEN [err |-> fetchErr, rootCAs |-> {}]
    ELSE [err |-> NoErr, rootCAs |-> systemPool \cup {ServerCert}]

\* client.go 43-67: fetch and verify the certificate, then build the pool the
\* TLS configuration trusts.  fetchErr is the result of getServerCert.
trustBootstrap(certPK, publicKey, fetchErr, systemPool) ==
    IF fetchErr # NoErr
    THEN [err |-> fetchErr, rootCAs |-> {}]
    ELSE IF verifyCert(certPK, publicKey) # NoErr
    THEN [err |-> verifyCert(certPK, publicKey), rootCAs |-> {}]
    ELSE [err |-> NoErr, rootCAs |-> systemPool \cup {ServerCert}]

\* NewAccountPayloadManager: l.Debug("fired", zap.Binary("aesKey", aesKey), ...)
NewAccountPayloadManager_log(aesKey) ==
    {LogRecord("AccountPayloadManager", "fired", "aesKey", aesKey)}

\* NewAccountPayloadManager and NewRawMessagePayloadManager
NewManagers(aesKey) ==
    [account |-> NewPayloadEncryptionManager(aesKey), raw |-> NewPayloadEncryptionManager(aesKey)]
NewAccountPayload(cfg) == NewAccountPayloadRepository(EmptyAccountPayload, cfg)

(***************************************************************************)
(* The devices a session runs on, and the inputs of the runs               *)
(***************************************************************************)
GoodKey == KeyFile("pw", AddressLength, TRUE)
OtherPasswordKey == KeyFile("other", AddressLength, TRUE)
ShortAddressKey == KeyFile("pw", AddressLength - 1, TRUE)
Alice == Account("uid1", "alice")
AccountDir == <<"keystore", "uid1">>

File(dir, name, data) == [dir |-> dir, name |-> name, data |-> data]

\* A device that holds the account: two key files and the account record.
SenderDevice ==
    [config |-> [KeystorePath |-> AccountDir, KeyUID |-> "uid1", Password |-> "pw"],
     keystore |-> {File(AccountDir, "a.json", GoodKey), File(AccountDir, "b.json", GoodKey)},
     db |-> {Alice}]
\* The same device with a key file that the configured password does not open.
BadKeyDevice ==
    [SenderDevice EXCEPT
        !.keystore = {File(AccountDir, "a.json", GoodKey),
                      File(AccountDir, "b.json", OtherPasswordKey)}]
\* A new device: an empty bare keystore directory and no account.
FreshDevice ==
    [config |-> [KeystorePath |-> <<"keystore">>, KeyUID |-> "", Password |-> ""],
     keystore |-> {},
     db |-> {}]
\* The sessions explored: which device runs the Client and the mode of the
\* remote it pairs with.
Sessions ==
    {[dev |-> SenderDevice, mode |-> Receiving], [dev |-> BadKeyDevice, mode |-> Receiving],
     [dev |-> FreshDevice, mode |-> Receiving], [dev |-> FreshDevice, mode |-> Sending],
     [dev |-> SenderDevice, mode |-> Sending], [dev |-> FreshDevice, mode |-> UnknownMode],
     [dev |-> SenderDevice, mode |-> UnknownMode]}

Rands == Nonces \cup {RandFail}
Challenges == {Raw(<<"c1">>), Raw(<<"c2">>)}
SyncMessages == Raw(<<"sync-messages">>)

PbKey(name, data) == [Name |-> name, Data |-> data]
\* Account payloads the remote may send.
RemoteGood == Pb(<<PbKey("a.json", GoodKey), PbKey("b.json", GoodKey)>>, Alice, "pw")
\* An account payload with one of the two keys only.
RemoteOneKey == Pb(<<PbKey("a.json", GoodKey)>>, Alice, "pw")
RemoteBadPassword ==
    Pb(<<PbKey("a.json", GoodKey), PbKey("b.json", OtherPasswordKey)>>, Alice, "pw")
RemoteShortAddress ==
    Pb(<<PbKey("a.json", GoodKey), PbKey("b.json", ShortAddressKey)>>, Alice, "pw")

\* Bodies that Receive of the account manager decrypts and unmarshals.
AccountBodies ==
    {Enc(ClientKey, "n1", pb) : pb \in {RemoteGood, RemoteBadPassword, RemoteShortAddress}}
\* Bodies that fail to decrypt or to unmarshal.
BadBodies ==
    {Enc(OtherKey, "n1", RemoteGood), Tamper(Enc(ClientKey, "n1", RemoteGood)),
     Enc(ClientKey, "n1", Raw(<<"garbage">>)), Raw(<<>>)}
SyncBodies == {Enc(ClientKey, "n1", SyncMessages)}

PushAnswers == {TransportError, NoAnswer, Refused, Ok(Nil)}
ChallengeAnswers ==
    {TransportError, NoAnswer, Refused} \cup {Ok(c) : c \in Challenges}
        \cup {BrokenBody(Raw(<<"c1">>))}
FailedAnswers == {TransportError, NoAnswer, Refused, BrokenBody(Raw(<<>>))}
PrepAnswers ==
    {[err |-> NoErr, payload |-> SyncMessages],
     [err |-> Err("prepare raw message failed"), payload |-> Nil]}
HandleAnswers == {NoErr, Err("handle raw message failed")}

\* The inputs of one run: the order in which maps are ranged over, what
\* rand.Reader delivers, the answers of the remote, what the disk does, and
\* the answers of the sync-message handler.  In the pull flows the nonce of
\* the challenge proof varies only together with a transport error.
NoInput ==
    [ord |-> FileOrder, rnd |-> "n1", chal |-> TransportError, ans |-> TransportError,
     io |-> "ok", prep |-> [err |-> NoErr, payload |-> SyncMessages], handle |-> NoErr]

\* Whether getChallenge succeeds with the answer a.
ChallengeReceived(a) == a.err = NoErr /\ a.StatusCode = StatusOK /\ ~a.readErr

PairAccountInputs(mode) ==
    CASE mode = Receiving ->
            {[NoInput EXCEPT !.ord = o, !.rnd = r, !.ans = a] :
                o \in MapOrders, r \in Rands, a \in PushAnswers}
      [] mode = Sending ->
            {[NoInput EXCEPT !.chal = c] : c \in {a \in ChallengeAnswers : ~ChallengeReceived(a)}}
            \cup {[NoInput EXCEPT !.chal = c, !.rnd = RandFail] :
                    c \in {a \in ChallengeAnswers : ChallengeReceived(a)}}
            \cup {[NoInput EXCEPT !.chal = c, !.rnd = r, !.ans = TransportError] :
                    c \in {a \in ChallengeAnswers : ChallengeReceived(a)}, r \in Nonces}
            \cup {[NoInput EXCEPT !.chal = c, !.ans = a] :
                    c \in {a \in ChallengeAnswers : ChallengeReceived(a)},
                    a \in FailedAnswers \cup {Ok(b) : b \in BadBodies}}
            \cup UNION {{[NoInput EXCEPT !.chal = c, !.ans = Ok(b), !.ord = o, !.io = i] :
                            c \in {a \in ChallengeAnswers : ChallengeReceived(a)},
                            b \in AccountBodies, i \in StoreIO} : o \in MapOrders}
      [] OTHER -> {NoInput}

PairSyncDeviceInputs(mode) ==
    CASE mode = Receiving ->
            {[NoInput EXCEPT !.prep = p, !.rnd = r, !.ans = a] :
                p \in PrepAnswers, r \in Rands, a \in PushAnswers}
      [] mode = Sending ->
            {[NoInput EXCEPT !.rnd = r, !.ans = TransportError] : r \in Rands}
            \cup {[NoInput EXCEPT !.ans = a] :
                    a \in FailedAnswers \cup {Ok(b) : b \in BadBodies}}
            \cup {[NoInput EXCEPT !.ans = Ok(b), !.handle = h] :
                    b \in SyncBodies, h \in HandleAnswers}
      [] OTHER -> {NoInput}

(***************************************************************************)
(* Initial state and actions                                               *)
(***************************************************************************)
NoResult == [op |-> "none", err |-> NoErr, out |-> Nil]

Init ==
    \E x \in Sessions, certPK \in {PinnedKey, ForeignKey} :
      LET dev == x.dev
          mode == x.mode
      IN
        /\ connectionParams = [publicKey |-> PinnedKey, aesKey |-> ClientKey, serverMode |-> mode]
        /\ config = dev.config
        /\ serverCertPK = certPK
        /\ client = "unset"
        /\ rootCAs = {}
        /\ serverMode = mode
        /\ serverChallenge = Nil
        /\ pem = NewManagers(ClientKey)
        /\ accountPayload = NewAccountPayload(dev.config)
        /\ rawPayload = Raw(<<>>)
        /\ keystore = dev.keystore
        /\ db = dev.db
        /\ requests = <<>>
        /\ events = <<>>
        /\ handlerLog = <<>>
        /\ calls = <<>>
        /\ ret = NoResult
        /\ lockTrace = [account |-> "never", raw |-> "never"]
        /\ logged = {}
        /\ messenger = NewMessenger

\* The process has not panicked and is not blocked in a call.
Running == ret.err \notin {Panic, Blocked}

\* NewPairingClient(backend, c, config)
NewPairingClient ==
    /\ client = "unset"
    /\ \E fetchErr \in {NoErr, Err("dial tcp: connection refused")} :
        LET t == trustBootstrap(serverCertPK, connectionParams.publicKey, fetchErr,
                                SystemCertPool)
        IN  /\ client' = IF t.err = NoErr THEN "ready" ELSE "nil"
            /\ rootCAs' = t.rootCAs
            /\ ret' = [op |-> "NewPairingClient", err |-> t.err, out |-> Nil]
            /\ logged' = IF t.err = NoErr
                         THEN NewAccountPayloadManager_log(connectionParams.aesKey)
                         ELSE {}
    /\ serverMode' = connectionParams.serverMode
    /\ pem' = NewManagers(connectionParams.aesKey)
    /\ accountPayload' = NewAccountPayload(config)
    /\ UNCHANGED <<messenger, connectionParams, config, serverCertPK, serverChallenge, rawPayload,
                   keystore, db, requests, events, handlerLog, calls, lockTrace>>

\* The state a protocol run leaves behind, and the record of the call.
Return(op, r) ==
    /\ pem' = r.s.pem
    /\ accountPayload' = r.s.ap
    /\ rawPayload' = r.s.raw
    /\ keystore' = r.s.ks
    /\ db' = r.s.db
    /\ serverChallenge' = r.s.challenge
    /\ requests' = r.s.requests
    /\ events' = r.s.events
    /\ handlerLog' = r.s.hlog
    /\ lockTrace' = r.s.locks
    /\ logged' = r.s.log
    /\ calls' = Append(calls, [op |-> op, err |-> r.err])
    /\ ret' = [op |-> op, err |-> r.err, out |-> Nil]
    /\ UNCHANGED <<messenger, connectionParams, config, serverCertPK, client, rootCAs, serverMode>>

\* c.PairAccount()
PairAccount ==
    /\ client = "ready"
    /\ Running
    /\ Len(calls) < MaxCalls
    /\ \E in \in PairAccountInputs(serverMode) :
        Return("PairAccount",
               c_PairAccount(Session(Len(calls) + 1, "PairAccount"), serverMode, in))

\* c.PairSyncDevice()
PairSyncDevice ==
    /\ client = "ready"
    /\ Running
    /\ Len(calls) < MaxCalls
    /\ \E in \in PairSyncDeviceInputs(serverMode) :
        Return("PairSyncDevice",
               c_PairSyncDevice(Session(Len(calls) + 1, "PairSyncDevice"), serverMode, in))

Next ==
    \/ NewPairingClient
    \/ PairAccount
    \/ PairSyncDevice

Spec == Init /\ [][Next]_vars

(***************************************************************************)
(* A Client that pushes: the remote is in Receiving mode and its            *)
(* certificate is the pinned one                                            *)
(***************************************************************************)
\* c.PairAccount() of a pushing Client
PushAccount ==
    /\ client = "ready"
    /\ Running
    /\ serverMode = Receiving
    /\ Len(calls) < MaxPushCalls
    /\ \E in \in PairAccountInputs(serverMode) :
        Return("PairAccount",
               c_PairAccount(Session(Len(calls) + 1, "PairAccount"), serverMode, in))

\* c.PairSyncDevice() of a pushing Client
PushSyncDevice ==
    /\ client = "ready"
    /\ Running
    /\ serverMode = Receiving
    /\ Len(calls) < MaxPushCalls
    /\ \E in \in PairSyncDeviceInputs(serverMode) :
        Return("PairSyncDevice",
               c_PairSyncDevice(Session(Len(calls) + 1, "PairSyncDevice"), serverMode, in))

NextPush ==
    \/ NewPairingClient
    \/ PushAccount
    \/ PushSyncDevice

InitPush ==
    /\ Init
    /\ serverCertPK = PinnedKey
    /\ serverMode = Receiving

SpecPush == InitPush /\ [][NextPush]_vars

(***************************************************************************)
(* StartUpPairingClient                                                    *)
(***************************************************************************)
\* What setupClient may fail with before it reaches NewPairingClient: the
\* configuration is not JSON, or the connection string does not parse.
SetupErrors == {NoErr, Err("invalid character in configJSON"), Err("invalid connection string")}

\* StartUpPairingClient that attempts the sync flow whatever PairAccount returned.
c_StartUpPairingClient_alwaysSyncs(s, mode, setupErr, in1, in2) ==
    IF setupErr # NoErr
    THEN [err |-> setupErr, s |-> s, calls |-> <<>>]
    ELSE CHOOSE r \in
            {CHOOSE q \in
                {[err |-> b.err, s |-> b.s,
                  calls |-> <<[op |-> "PairAccount", err |-> a.err],
                              [op |-> "PairSyncDevice", err |-> b.err]>>] :
                    b \in {c_PairSyncDevice([a.s EXCEPT !.call = 2, !.by = "PairSyncDevice"],
                                            mode, in2)}} : TRUE :
                a \in {c_PairAccount(s, mode, in1)}} : TRUE

\* client.go 270-280: s is the state of the Client that setupClient returns,
\* setupErr the error of setupClient, in1 and in2 the inputs of the two flows.
c_StartUpPairingClient(s, mode, setupErr, in1, in2) ==
    IF setupErr # NoErr
    THEN [err |-> setupErr, s |-> s, calls |-> <<>>]
    ELSE CHOOSE r \in
            {IF a.err # NoErr
             THEN [err |-> a.err, s |-> a.s,
                   calls |-> <<[op |-> "PairAccount", err |-> a.err]>>]
             ELSE CHOOSE q \in
                     {[err |-> b.err, s |-> b.s,
                       calls |-> <<[op |-> "PairAccount", err |-> a.err],
                                   [op |-> "PairSyncDevice", err |-> b.err]>>] :
                         b \in {c_PairSyncDevice(
                                    [a.s EXCEPT !.call = 2, !.by = "PairSyncDevice"],
                                    mode, in2)}} : TRUE :
                a \in {c_PairAccount(s, mode, in1)}} : TRUE

\* StartUpPairingClient(backend, cs, configJSON)
StartUpPairingClient ==
    /\ client = "unset"
    /\ \E parseErr \in SetupErrors, fetchErr \in {NoErr, Err("dial tcp: connection refused")},
          in1 \in PairAccountInputs(connectionParams.serverMode),
          in2 \in PairSyncDeviceInputs(connectionParams.serverMode) :
        LET t == trustBootstrap(serverCertPK, connectionParams.publicKey, fetchErr,
                                SystemCertPool)
            setupErr == IF parseErr # NoErr THEN parseErr ELSE t.err
        IN  \E r \in {c_StartUpPairingClient(Session(1, "PairAccount"),
                                         connectionParams.serverMode, setupErr, in1, in2)} :
            /\ client' = IF setupErr = NoErr THEN "ready" ELSE "nil"
            /\ rootCAs' = IF parseErr # NoErr THEN {} ELSE t.rootCAs
            /\ pem' = r.s.pem
            /\ accountPayload' = r.s.ap
            /\ rawPayload' = r.s.raw
            /\ keystore' = r.s.ks
            /\ db' = r.s.db
            /\ serverChallenge' = r.s.challenge
            /\ requests' = r.s.requests
            /\ events' = r.s.events
            /\ handlerLog' = r.s.hlog
            /\ lockTrace' = r.s.locks
            /\ logged' = IF setupErr = NoErr
                         THEN NewAccountPayloadManager_log(connectionParams.aesKey)
                                  \cup r.s.log
                         ELSE {}
            /\ calls' = r.calls
            /\ ret' = [op |-> "StartUpPairingClient", err |-> r.err, out |-> Nil]
    /\ serverMode' = connectionParams.serverMode
    /\ UNCHANGED <<messenger, connectionParams, config, serverCertPK>>

SpecStartUp == Init /\ [][StartUpPairingClient]_vars

(***************************************************************************)
(* The PayloadManager interface of the account manager, called directly    *)
(***************************************************************************)
\* AccountPayloadManager.ResetPayload
apm_ResetPayload(p, ap) == [pem |-> pem_ResetPayload(p), ap |-> ap_ResetPayload(ap)]

\* lockTrace after ResetPayload
ResetTrace(t) == IF t = "never" THEN "never" ELSE "reset"

Plaintexts == {Raw(<<"p1">>)}
\* What a caller may hand to Decrypt and Receive: bodies of the remote, and
\* what the manager itself holds ready to send.
InboundData ==
    AccountBodies \cup BadBodies \cup {pem_ToSend(pem.account)}
        \cup {Enc(ClientKey, "n1", RemoteOneKey)}

ManagerFrame ==
    UNCHANGED <<messenger, connectionParams, config, serverCertPK, client, rootCAs, serverMode,
                serverChallenge, rawPayload, requests, events, handlerLog, calls>>

\* apm.Mount()
Mount ==
    /\ \E ord \in MapOrders, rnd \in Rands :
        LET m == apm_Mount(pem.account, accountPayload, keystore, db, ord, rnd)
        IN  /\ pem' = [pem EXCEPT !.account = m.pem]
            /\ accountPayload' = m.ap
            /\ ret' = [op |-> "Mount", err |-> m.err, out |-> Nil]
            /\ logged' = m.log
    /\ UNCHANGED <<keystore, db, lockTrace>>
    /\ ManagerFrame

\* apm.Receive(data)
Receive ==
    /\ \E data \in InboundData, ord \in MapOrders :
       \E io \in IF data \in AccountBodies THEN StoreIO ELSE {"ok"} :
        LET r == apm_Receive(pem.account, accountPayload, keystore, db, data, ord, io)
        IN  /\ pem' = [pem EXCEPT !.account = r.pem]
            /\ accountPayload' = r.ap
            /\ keystore' = r.ks
            /\ db' = r.db
            /\ ret' = [op |-> "Receive", err |-> r.err, out |-> Nil]
            /\ logged' = r.log
    /\ UNCHANGED lockTrace
    /\ ManagerFrame

\* apm.Encrypt(data)
Encrypt ==
    /\ \E data \in Plaintexts, rnd \in Rands :
        LET e == pem_Encrypt(pem.account, data, rnd)
        IN  /\ pem' = [pem EXCEPT !.account = e.pem]
            /\ ret' = [op |-> "Encrypt", err |-> e.err, out |-> Nil]
            /\ logged' = e.log
    /\ UNCHANGED <<accountPayload, keystore, db, lockTrace>>
    /\ ManagerFrame

\* apm.Decrypt(data)
Decrypt ==
    /\ \E data \in InboundData :
        LET d == pem_Decrypt(pem.account, data)
        IN  /\ pem' = [pem EXCEPT !.account = d.pem]
            /\ ret' = [op |-> "Decrypt", err |-> d.err, out |-> Nil]
            /\ logged' = d.log
    /\ UNCHANGED <<accountPayload, keystore, db, lockTrace>>
    /\ ManagerFrame

\* apm.EncryptPlain(plaintext)
EncryptPlain ==
    /\ \E plaintext \in Plaintexts, rnd \in Rands :
        LET e == pem_EncryptPlain(pem.account, plaintext, rnd)
        IN  ret' = [op |-> "EncryptPlain", err |-> e.err, out |-> e.out]
    /\ logged' = {}
    /\ UNCHANGED <<pem, accountPayload, keystore, db, lockTrace>>
    /\ ManagerFrame

\* apm.LockPayload()
LockPayload ==
    /\ pem' = [pem EXCEPT !.account = pem_LockPayload(@)]
    /\ lockTrace' = [lockTrace EXCEPT !.account = "locked"]
    /\ ret' = [op |-> "LockPayload", err |-> NoErr, out |-> Nil]
    /\ logged' = {}
    /\ UNCHANGED <<accountPayload, keystore, db>>
    /\ ManagerFrame

\* apm.ResetPayload()
ResetPayload ==
    /\ LET r == apm_ResetPayload(pem.account, accountPayload)
       IN  /\ pem' = [pem EXCEPT !.account = r.pem]
           /\ accountPayload' = r.ap
    /\ lockTrace' = [lockTrace EXCEPT !.account = ResetTrace(@)]
    /\ ret' = [op |-> "ResetPayload", err |-> NoErr, out |-> Nil]
    /\ logged' = {}
    /\ UNCHANGED <<keystore, db>>
    /\ ManagerFrame

NextManager ==
    \/ Mount
    \/ Receive
    \/ Encrypt
    \/ Decrypt
    \/ EncryptPlain
    \/ LockPayload
    \/ ResetPayload

\* The account manager of a device, driven through its interface: the
\* manager NewAccountPayloadManager returns, on a device that holds the
\* account or on a new one.
InitManager ==
    /\ Init
    /\ serverCertPK = PinnedKey
    /\ serverMode = Receiving
    /\ keystore \in {SenderDevice.keystore, FreshDevice.keystore}

SpecManager == InitManager /\ [][NextManager]_vars

(***************************************************************************)
(* The two managers of a Client driven through their interfaces            *)
(***************************************************************************)
\* The number of calls made to the SyncRawMessageHandler that are explored.
MaxHandlerCalls == 1

rmpm_ResetPayload(p) == [pem |-> pem_ResetPayload(p), payload |-> Raw(<<>>)]

\* rmpm.Mount()
MountRaw ==
    /\ Len(handlerLog) < MaxHandlerCalls
    /\ \E prep \in PrepAnswers, rnd \in Rands :
        LET m == rmpm_Mount(pem.raw, accountPayload, rawPayload, prep, rnd)
        IN  /\ pem' = [pem EXCEPT !.raw = m.pem]
            /\ rawPayload' = m.payload
            /\ handlerLog' = handlerLog \o m.asked
            /\ ret' = [op |-> "rmpm.Mount", err |-> m.err, out |-> Nil]
            /\ logged' = m.log
    /\ UNCHANGED <<messenger, connectionParams, config, serverCertPK, client, rootCAs, serverMode,
                   serverChallenge, accountPayload, keystore, db, requests, events,
                   calls, lockTrace>>

\* rmpm.Receive(data)
ReceiveRaw ==
    /\ Len(handlerLog) < MaxHandlerCalls
    /\ \E data \in SyncBodies \cup BadBodies, handleErr \in HandleAnswers :
        LET r == rmpm_Receive(pem.raw, accountPayload, rawPayload, data, handleErr)
        IN  /\ pem' = [pem EXCEPT !.raw = r.pem]
            /\ rawPayload' = r.payload
            /\ handlerLog' = handlerLog \o r.asked
            /\ ret' = [op |-> "rmpm.Receive", err |-> r.err, out |-> Nil]
            /\ logged' = r.log
    /\ UNCHANGED <<messenger, connectionParams, config, serverCertPK, client, rootCAs, serverMode,
                   serverChallenge, accountPayload, keystore, db, requests, events,
                   calls, lockTrace>>

\* rmpm.LockPayload()
LockRawPayload ==
    /\ pem' = [pem EXCEPT !.raw = pem_LockPayload(@)]
    /\ lockTrace' = [lockTrace EXCEPT !.raw = "locked"]
    /\ ret' = [op |-> "rmpm.LockPayload", err |-> NoErr, out |-> Nil]
    /\ logged' = {}
    /\ UNCHANGED <<messenger, connectionParams, config, serverCertPK, client, rootCAs, serverMode,
                   serverChallenge, accountPayload, rawPayload, keystore, db, requests,
                   events, handlerLog, calls>>

\* rmpm.ResetPayload()
ResetRawPayload ==
    /\ LET r == rmpm_ResetPayload(pem.raw)
       IN  /\ pem' = [pem EXCEPT !.raw = r.pem]
           /\ rawPayload' = r.payload
    /\ lockTrace' = [lockTrace EXCEPT !.raw = ResetTrace(@)]
    /\ ret' = [op |-> "rmpm.ResetPayload", err |-> NoErr, out |-> Nil]
    /\ logged' = {}
    /\ UNCHANGED <<messenger, connectionParams, config, serverCertPK, client, rootCAs, serverMode,
                   serverChallenge, accountPayload, keystore, db, requests, events,
                   handlerLog, calls>>

NextRaw ==
    \/ Mount
    \/ Decrypt
    \/ LockPayload
    \/ ResetPayload
    \/ MountRaw
    \/ ReceiveRaw
    \/ LockRawPayload
    \/ ResetRawPayload

\* The account manager and the raw-message manager that share one
\* AccountPayload, as NewPairingClient constructs them.
SpecRaw == InitManager /\ [][NextRaw]_vars

(***************************************************************************)
(* loadKeys of the AccountPayloadRepository over keystore directories      *)
(***************************************************************************)
\* No file at a place of the directory tree.
NoFile == [kind |-> "none"]
\* The places a file may be at: an immediate child of the keystore directory
\* or a child of a subdirectory of it.
FilePlaces == {AccountDir, AccountDir \o <<"backup">>} \X FileNames
\* The directory trees explored: each place holds no file, a key file, a key
\* file with a short address, or a file that is not a key record.
Keystores ==
    {{File(pl[1], pl[2], f[pl]) : pl \in {q \in FilePlaces : f[q] # NoFile}} :
        f \in [FilePlaces -> {NoFile, GoodKey, ShortAddressKey, NotAKeyFile}]}
\* The keys the repository may hold from an earlier load or Receive.
EarlierKeys == {EmptyKeys, MapPut(EmptyKeys, "b.json", OtherPasswordKey)}

InitKeys ==
    /\ connectionParams = [publicKey |-> PinnedKey, aesKey |-> ClientKey,
                           serverMode |-> Receiving]
    /\ config = SenderDevice.config
    /\ serverCertPK = PinnedKey
    /\ client = "unset"
    /\ rootCAs = {}
    /\ serverMode = Receiving
    /\ serverChallenge = Nil
    /\ pem = NewManagers(ClientKey)
    /\ \E keys \in EarlierKeys :
          accountPayload = [NewAccountPayload(SenderDevice.config) EXCEPT !.keys = keys]
    /\ rawPayload = Raw(<<>>)
    /\ keystore \in Keystores
    /\ db = SenderDevice.db
    /\ requests = <<>>
    /\ events = <<>>
    /\ handlerLog = <<>>
    /\ calls = <<>>
    /\ ret = NoResult
    /\ lockTrace = [account |-> "never", raw |-> "never"]
    /\ logged = {}
    /\ messenger = NewMessenger

\* apr.loadKeys(apr.keystorePath)
LoadKeys ==
    /\ LET l == apr_loadKeys(accountPayload, keystore, config.KeystorePath)
       IN  /\ accountPayload' = l.ap
           /\ ret' = [op |-> "loadKeys", err |-> l.err, out |-> Nil]
    /\ logged' = {}
    /\ UNCHANGED <<pem, keystore, db, lockTrace>>
    /\ ManagerFrame

SpecKeys == InitKeys /\ [][LoadKeys]_vars

(***************************************************************************)
(* Messenger.applyEditMessage                                              *)
(***************************************************************************)
\* The number of applyEditMessage calls that are explored.
MaxEdits == 2

\* protobuf.ChatMessage_ContentType
UNKNOWN_CONTENT_TYPE == "UNKNOWN_CONTENT_TYPE"
TEXT_PLAIN == "TEXT_PLAIN"
EMOJI == "EMOJI"

\* A common.Message as MessageByID returns it: the fields applyEditMessage
\* reads or writes.
Message(text, contentType, editedAt) ==
    [ID |-> "0x01", From |-> "0xme", LocalChatID |-> "chat", Clock |-> 1,
     Text |-> text, ContentType |-> contentType, EditedAt |-> editedAt]
\* The stored messages an edit may be applied to: never edited (EditedAt 0)
\* or edited before.
StoredMessages ==
    {Message(t, ct, at) : t \in {"hello", "hi"}, ct \in {TEXT_PLAIN, EMOJI}, at \in {0, 1}}
\* The protobuf.EditMessage values applied; clock 0 is what a remote may send.
EditMessages ==
    [Text : {"bye", "ciao"}, Clock : {0, 2, 3},
     ContentType : {UNKNOWN_CONTENT_TYPE, TEXT_PLAIN, EMOJI}]
\* What fails in one applyEditMessage: nothing, ValidateText, SaveEdit,
\* PrepareContent or SaveMessages.
EditIO == {"ok", "validate", "saveEdit", "prepare", "saveMessages"}

\* applyEditMessage over the message the pointer refers to and the writes
\* made to m.persistence so far.
m_applyEditMessage(message, persistence, editMessage, io) ==
    LET edited == [message EXCEPT
                      !.Text = editMessage.Text,
                      !.EditedAt = editMessage.Clock,
                      !.ContentType = IF editMessage.ContentType # UNKNOWN_CONTENT_TYPE
                                      THEN editMessage.ContentType
                                      ELSE @]
        originalEdit == [Clock |-> edited.Clock, LocalChatID |-> edited.LocalChatID,
                         MessageId |-> edited.ID, Text |-> edited.Text,
                         ContentType |-> edited.ContentType, From |-> edited.From]
        saveEdit == edited.EditedAt = 0
        afterEdit == IF saveEdit
                     THEN Append(persistence, [call |-> "SaveEdit", edit |-> originalEdit])
                     ELSE persistence
    IN  IF io = "validate"
        THEN [err |-> Err("text can't be empty"), message |-> message,
              persistence |-> persistence]
        ELSE IF saveEdit /\ io = "saveEdit"
        THEN [err |-> Err("database is locked"), message |-> edited,
              persistence |-> persistence]
        ELSE IF io = "prepare"
        THEN [err |-> Err("failed to prepare content"), message |-> edited,
              persistence |-> afterEdit]
        ELSE IF io = "saveMessages"
        THEN [err |-> Err("database is locked"), message |-> edited,
              persistence |-> afterEdit]
        ELSE [err |-> NoErr, message |-> edited,
              persistence |-> Append(afterEdit, [call |-> "SaveMessages", message |-> edited])]

\* A Messenger that loaded a stored message, nothing written yet.
InitEdit ==
    /\ connectionParams = [publicKey |-> PinnedKey, aesKey |-> ClientKey,
                           serverMode |-> Receiving]
    /\ config = SenderDevice.config
    /\ serverCertPK = PinnedKey
    /\ client = "unset"
    /\ rootCAs = {}
    /\ serverMode = Receiving
    /\ serverChallenge = Nil
    /\ pem = NewManagers(ClientKey)
    /\ accountPayload = NewAccountPayload(SenderDevice.config)
    /\ rawPayload = Raw(<<>>)
    /\ keystore = SenderDevice.keystore
    /\ db = SenderDevice.db
    /\ requests = <<>>
    /\ events = <<>>
    /\ handlerLog = <<>>
    /\ calls = <<>>
    /\ ret = NoResult
    /\ lockTrace = [account |-> "never", raw |-> "never"]
    /\ logged = {}
    /\ \E message \in StoredMessages : messenger = [message |-> message, persistence |-> <<>>]

\* m.applyEditMessage(editMessage, message)
ApplyEditMessage ==
    /\ Len(calls) < MaxEdits
    /\ \E editMessage \in EditMessages, io \in EditIO :
        LET r == m_applyEditMessage(messenger.message, messenger.persistence, editMessage, io)
        IN  /\ messenger' = [message |-> r.message, persistence |-> r.persistence]
            /\ calls' = Append(calls, [op |-> "applyEditMessage", err |-> r.err])
            /\ ret' = [op |-> "applyEditMessage", err |-> r.err, out |-> editMessage]
    /\ logged' = {}
    /\ UNCHANGED <<connectionParams, config, serverCertPK, client, rootCAs, serverMode,
                   serverChallenge, pem, accountPayload, rawPayload, keystore, db,
                   requests, events, handlerLog, lockTrace>>

SpecEdit == InitEdit /\ [][ApplyEditMessage]_vars

(***************************************************************************)
(* Properties                                                              *)
(***************************************************************************)
Max(S) == CHOOSE x \in S : \A y \in S : y <= x
\* The requests issued by the k-th call.
RequestsOf(k) == {j \in DOMAIN requests : requests[j].call = k}
EventsOf(k) == {j \in DOMAIN events : events[j].call = k}
IsAccountPush(r) == r.method = "POST" /\ r.path = pairingReceiveAccount
IsPush(r) == r.method = "POST" /\ r.path \in {pairingReceiveAccount, pairingSyncDeviceReceive}
IsAccountPull(r) == r.method = "GET" /\ r.path = pairingSendAccount
IsSyncPull(r) == r.method = "GET" /\ r.path = pairingSyncDeviceSend
IsPull(r) == IsAccountPull(r) \/ IsSyncPull(r)
IsChallengeRequest(r) == r.path = pairingChallenge
\* A challenge request whose answer was stored as the Client's challenge.
IsChallengeFetch(r) == IsChallengeRequest(r) /\ r.code = StatusOK
\* The challenge fetches that precede request j.
FetchesBefore(j) == {i \in 1..(j - 1) : IsChallengeFetch(requests[i])}
\* The last challenge fetch that precedes request j, 0 when there is none.
LastFetchBefore(j) == IF FetchesBefore(j) = {} THEN 0 ELSE Max(FetchesBefore(j))
\* The challenge the Client held when it issued request j.
HeldAt(j) == IF LastFetchBefore(j) = 0 THEN Nil ELSE requests[LastFetchBefore(j)].got
\* What the remote recovers from a challenge header with the session key.
ProofOf(header) == common_Decrypt(Base58Decode(header), ClientKey)
\* An encryption of an account payload.
IsAccountCiphertext(b) == b.kind = "enc" /\ b.pt.kind = "pb"

\* C1: when the public key of the fetched certificate differs from the pinned
\* key, NewPairingClient returns an error and yields no Client, and no call of
\* PairAccount or PairSyncDevice and no request is ever made in the session.
C1_UntrustedServerYieldsNoClient ==
    serverCertPK # connectionParams.publicKey =>
        /\ client # "ready"
        /\ calls = <<>>
        /\ requests = <<>>
        /\ (client = "nil" => ret.op = "NewPairingClient" /\ ret.err # NoErr)

\* C1 witness: the certificate was fetched, did not match, and setup failed.
C1_Witness ==
    /\ serverCertPK # connectionParams.publicKey
    /\ client = "nil"
    /\ ret.err = verifyCert(serverCertPK, connectionParams.publicKey)

\* C2: after a successful trust bootstrap the pool the TLS configuration
\* trusts holds exactly one certificate, the verified server certificate.
C2_PoolHoldsOnlyServerCert ==
    client = "ready" => rootCAs = {ServerCert}

\* C3: after LockPayload(), and until ResetPayload() is called, ToSend() and
\* Received() return empty, whatever the slots hold and whatever Encrypt,
\* Decrypt, EncryptPlain or LockPayload calls follow.
C3_LockedReturnsEmpty ==
    lockTrace.account = "locked" =>
        /\ pem_ToSend(pem.account) = Nil
        /\ pem_Received(pem.account) = Nil

\* C3 witness: a locked manager whose slots both hold data, after an Encrypt
\* that followed the lock.
C3_Witness ==
    /\ lockTrace.account = "locked"
    /\ ret.op = "Encrypt"
    /\ ret.err = NoErr
    /\ pem.account.toSend.encrypted # Nil
    /\ pem.account.received.plain # Nil

\* C4: once LockPayload() has been called on a manager, both of its slots are
\* locked in every later state, whatever interface operations follow.
C4_LockIsIrreversible ==
    lockTrace.account # "never" =>
        /\ pem.account.toSend.locked
        /\ pem.account.received.locked

\* Mount() would succeed on the local source as it is (a valid keystore).
ValidKeystore == apr_LoadFromSource(accountPayload, keystore, db).err = NoErr
\* b is a ciphertext, under the session key, of the wire form of the account
\* payload loaded from the local source.
IsMountedCiphertext(b) ==
    /\ b.kind = "enc"
    /\ b.key = ClientKey
    /\ b.tag
    /\ \E ord \in MapOrders :
        b.pt = ppm_MarshalToProtobuf(apr_LoadFromSource(accountPayload, keystore, db).ap, ord)
\* The k-th call issued exactly one request, a POST to the receive-account
\* path carrying the ciphertext of the mounted payload, and, if that was
\* answered 200, returned success with ToSend() empty afterwards.
PushedAccount(k) ==
    /\ Cardinality(RequestsOf(k)) = 1
    /\ \A j \in RequestsOf(k) :
        /\ IsAccountPush(requests[j])
        /\ ~IsEmpty(requests[j].body)
        /\ IsMountedCiphertext(requests[j].body)
        /\ requests[j].code = StatusOK =>
              /\ calls[k].err = NoErr
              /\ pem_ToSend(pem.account) = Nil
\* An account push was accepted by the remote before the k-th call.
AcceptedBefore(k) ==
    \E j \in DOMAIN requests :
        requests[j].call < k /\ IsAccountPush(requests[j]) /\ requests[j].code = StatusOK
\* The k-th call is a PairAccount() whose encryption did not fail.
IsAccountCall(k) == calls[k].op = "PairAccount" /\ calls[k].err # Err("EncryptionError")

\* C5 as stated: every PairAccount() of a Client in Receiving mode with a
\* valid keystore posts the non-empty ciphertext of the mounted payload.
C5_EveryPushCarriesCiphertext ==
    (serverMode = Receiving /\ ValidKeystore) =>
        \A k \in DOMAIN calls : IsAccountCall(k) => PushedAccount(k)

\* C5 amended: a PairAccount() of a Client in Receiving mode with a valid
\* keystore, made while no earlier account push has been accepted (the account
\* manager is not locked), issues exactly one POST to the receive-account
\* path with the non-empty ciphertext of the mounted payload; answered 200 it
\* returns success and ToSend() is empty afterwards.
C5_UnlockedPushCarriesCiphertext ==
    (serverMode = Receiving /\ ValidKeystore) =>
        \A k \in DOMAIN calls :
            (IsAccountCall(k) /\ ~AcceptedBefore(k)) => PushedAccount(k)

\* C5 witness: the first PairAccount() pushed the ciphertext and got 200.
C5_Witness ==
    /\ serverMode = Receiving
    /\ ValidKeystore
    /\ Len(calls) >= 1
    /\ calls[1].op = "PairAccount"
    /\ calls[1].err = NoErr
    /\ \E j \in RequestsOf(1) :
        IsMountedCiphertext(requests[j].body) /\ requests[j].code = StatusOK

\* C6: in a push flow, when the POST fails at transport level or is answered
\* with a status other than 200, the call returns an error (for a refused
\* response one carrying the status line) and a TransferError event is
\* emitted; the call ends no other way.
C6_FailedPushReturnsError ==
    \A k \in DOMAIN calls : \A j \in RequestsOf(k) :
        (IsPush(requests[j]) /\ requests[j].code # StatusOK) =>
            /\ calls[k].err # NoErr
            /\ calls[k].err # Panic
            /\ requests[j].code # 0 => calls[k].err.status # ""
            /\ \E e \in EventsOf(k) : events[e].Type = EventTransferError

\* C7: once an account POST has been answered 200 the account manager is
\* locked when PairAccount() has returned and stays locked whatever later
\* call fails, and no later request carries an account ciphertext.
C7_AcceptedPushStaysLocked ==
    \A i \in DOMAIN requests :
        (IsAccountPush(requests[i]) /\ requests[i].code = StatusOK) =>
            /\ pem.account.toSend.locked
            /\ pem.account.received.locked
            /\ pem_ToSend(pem.account) = Nil
            /\ \A j \in DOMAIN requests : j > i => ~IsAccountCiphertext(requests[j].body)

\* C7 witness: the account push was accepted, and then a later call failed
\* after issuing its own request.
C7_Witness ==
    /\ Len(requests) >= 2
    /\ IsAccountPush(requests[1])
    /\ requests[1].code = StatusOK
    /\ Len(calls) >= 2
    /\ calls[2].err # NoErr

\* The number of challenge requests issued by the k-th call.
ChallengeRequestsOf(k) == {j \in RequestsOf(k) : IsChallengeRequest(requests[j])}

\* C8 as stated: the challenge endpoint is requested at most once in the
\* whole session, and never by PairSyncDevice().
C8_ChallengeOncePerSession ==
    /\ Cardinality({j \in DOMAIN requests : IsChallengeRequest(requests[j])}) <= 1
    /\ \A j \in DOMAIN requests : IsChallengeRequest(requests[j]) => requests[j].by = "PairAccount"

\* C8 amended: every PairAccount() call of a Client in Sending mode requests
\* the challenge endpoint exactly once, as its first request (so once per
\* call, not once per session), and PairSyncDevice() never requests it.
C8_ChallengeOncePerAccountCall ==
    \A k \in DOMAIN calls :
        IF calls[k].op = "PairAccount" /\ serverMode = Sending
        THEN /\ Cardinality(ChallengeRequestsOf(k)) = 1
             /\ \A j \in ChallengeRequestsOf(k) : \A i \in RequestsOf(k) : j <= i
        ELSE ChallengeRequestsOf(k) = {}

\* C8 witness: two PairAccount() calls in Sending mode, then two challenge
\* requests.
C8_Witness ==
    /\ serverMode = Sending
    /\ Len(calls) = 2
    /\ calls[1].op = "PairAccount"
    /\ calls[2].op = "PairAccount"
    /\ Cardinality({j \in DOMAIN requests : IsChallengeRequest(requests[j])}) = 2

\* The pull requests that carry a proof of the challenge that request f fetched.
ProofsOf(f) ==
    {j \in DOMAIN requests :
        /\ j > f
        /\ IsPull(requests[j])
        /\ requests[j].header # Nil
        /\ LastFetchBefore(j) = f}

\* C9 as stated: a challenge received from the remote is encrypted and
\* attached as proof to at most one pull request.
C9_ChallengeUsedOnce ==
    \A f \in DOMAIN requests :
        IsChallengeFetch(requests[f]) => Cardinality(ProofsOf(f)) <= 1

\* C9 amended: a challenge received from the remote is kept until the next
\* PairAccount() replaces it; it is attached as proof to at most one account
\* pull, and also to every sync pull issued while it is held.
C9_ChallengeUsedWhileHeld ==
    \A f \in DOMAIN requests :
        IsChallengeFetch(requests[f]) =>
            /\ Cardinality({j \in ProofsOf(f) : IsAccountPull(requests[j])}) <= 1
            /\ \A j \in DOMAIN requests :
                (j > f /\ IsSyncPull(requests[j]) /\ LastFetchBefore(j) = f) =>
                    /\ j \in ProofsOf(f)
                    /\ ProofOf(requests[j].header).out = requests[f].got

\* C9 witness: one fetched challenge was attached to the account pull and
\* then to a sync pull.
C9_Witness ==
    \E f \in DOMAIN requests :
        /\ IsChallengeFetch(requests[f])
        /\ \E i, j \in ProofsOf(f) : IsAccountPull(requests[i]) /\ IsSyncPull(requests[j])

\* C10: a pull request issued while the Client holds a challenge C carries
\* the challenge header, whose value is the base58 text of a ciphertext that
\* decrypts under the session key to C, the challenge most recently received;
\* a pull request issued while no challenge is held carries no header.
C10_PullCarriesProofOfHeldChallenge ==
    \A j \in DOMAIN requests :
        IsPull(requests[j]) =>
            IF HeldAt(j) = Nil
            THEN requests[j].header = Nil
            ELSE /\ requests[j].header.kind = "b58"
                 /\ ProofOf(requests[j].header) = [err |-> NoErr, out |-> HeldAt(j)]

\* C10 witness: a pull carries the proof of the second of two different
\* challenges received in the session.
C10_Witness ==
    \E j \in DOMAIN requests :
        /\ IsPull(requests[j])
        /\ requests[j].header # Nil
        /\ \E f \in FetchesBefore(j) : requests[f].got # HeldAt(j)

\* C11: when the decryption step of Receive(data) fails, Receive returns the
\* decryption error and leaves the local state as it was: the keystore files,
\* the account database, the shared AccountPayload and both slots of the
\* manager (so the inbound slot keeps its previous content).
C11_FailedDecryptLeavesStateUnmodified ==
    [][(ret'.op = "Receive" /\ ret'.err = Err("DecryptionError")) =>
          /\ keystore' = keystore
          /\ db' = db
          /\ accountPayload' = accountPayload
          /\ pem' = pem]_vars

\* C11 witness: a Receive failed to decrypt on a manager whose inbound slot
\* and payload hold what an earlier Receive left there.
C11_Witness ==
    /\ ret.op = "Receive"
    /\ ret.err = Err("DecryptionError")
    /\ pem.account.received.plain # Nil
    /\ DOMAIN accountPayload.keys # {}
    /\ keystore # {}

\* A key entry of the payload does not decrypt with the payload's password.
HasUndecryptableKey(ap) ==
    \E n \in DOMAIN ap.keys : ~DecryptsWith(ap.keys[n], ap.password)

\* C12: StoreToSource, which Receive runs on the unmarshalled payload,
\* validates every key entry with the payload's password before it writes:
\* when any entry fails to decrypt, the call fails, no key file is written and
\* no account record is saved; every key file a call writes decrypts with
\* that password.
C12_UndecryptableKeyWritesNothing ==
    [][ret'.op = "Receive" =>
          /\ HasUndecryptableKey(accountPayload') =>
                /\ ret'.err # NoErr
                /\ keystore' = keystore
                /\ db' = db
          /\ \A f \in keystore' \ keystore :
                DecryptsWith(f.data, accountPayload'.password)]_vars

\* C12 witness: a payload with one good key and one key of another password
\* was received on a new device, and nothing was stored.
C12_Witness ==
    /\ ret.op = "Receive"
    /\ ret.err = Err("could not decrypt key with given password")
    /\ DOMAIN accountPayload.keys = {"a.json", "b.json"}
    /\ DecryptsWith(accountPayload.keys["a.json"], accountPayload.password)
    /\ ~DecryptsWith(accountPayload.keys["b.json"], accountPayload.password)
    /\ keystore = {}
    /\ db = {}

\* C13: whenever the StoreToSource of a Receive fails, for whatever reason,
\* that call has written no key file and saved no account record.
C13_FailedStoreWritesNothing ==
    [][(ret'.op = "Receive" /\ ret'.err # NoErr) =>
          /\ keystore' = keystore
          /\ db' = db]_vars

\* C14: a Decrypt that succeeds was given a ciphertext made under the key of
\* the manager, and leaves its plaintext in the inbound slot, which
\* Received() of an unlocked manager returns; given what ToSend() returned
\* after Encrypt(P), Received() is P.  A Decrypt of any other data (another
\* key, a tampered body) returns an error and leaves both slots as they were.
C14_DecryptInvertsEncrypt ==
    [][ret'.op = "Decrypt" =>
          IF ret'.err = NoErr
          THEN LET c == pem'.account.received.encrypted
               IN  /\ c.kind = "enc"
                   /\ c.key = pem.account.aesKey
                   /\ c.tag
                   /\ pem'.account.received.plain = c.pt
                   /\ ~pem.account.toSend.locked => pem_Received(pem'.account) = c.pt
                   /\ c = pem_ToSend(pem.account) =>
                         pem_Received(pem'.account) = pem.account.toSend.plain
          ELSE pem' = pem]_vars

\* C14 witness: the manager decrypted what its own ToSend() returned after
\* Encrypt(P), and Received() is P.
C14_Witness ==
    /\ ret.op = "Decrypt"
    /\ ret.err = NoErr
    /\ pem.account.toSend.plain \in Plaintexts
    /\ pem.account.received.encrypted = pem_ToSend(pem.account)
    /\ pem_Received(pem.account) = pem.account.toSend.plain

\* The payload that UnmarshalProtobuf builds in an empty AccountPayload from
\* the bytes MarshalToProtobuf makes of ap when the keys are ranged in ord.
RoundTrip(ap, ord) ==
    ppm_UnmarshalProtobuf(EmptyAccountPayload, ppm_MarshalToProtobuf(ap, ord))

\* C15: marshalling an AccountPayload that has account metadata and
\* unmarshalling the bytes into an empty AccountPayload yields the same keys
\* mapping, the same metadata and the same password, whatever the order in
\* which the keys were written; in particular for the bytes Mount() marshals.
C15_MarshalRoundTrip ==
    /\ ~accountPayload.multiaccount.nil =>
          \A ord \in MapOrders :
              /\ RoundTrip(accountPayload, ord).err = NoErr
              /\ RoundTrip(accountPayload, ord).ap.keys = accountPayload.keys
              /\ RoundTrip(accountPayload, ord).ap.multiaccount = accountPayload.multiaccount
              /\ RoundTrip(accountPayload, ord).ap.password = accountPayload.password
    /\ (ret.op = "Mount" /\ ret.err = NoErr) =>
          ppm_UnmarshalProtobuf(EmptyAccountPayload, pem.account.toSend.plain) =
              [err |-> NoErr, ap |-> accountPayload]

\* C15 witness: a payload with metadata, a password and two key files of
\* different content.
C15_Witness ==
    /\ ~accountPayload.multiaccount.nil
    /\ accountPayload.password # ""
    /\ DOMAIN accountPayload.keys = {"a.json", "b.json"}
    /\ accountPayload.keys["a.json"] # accountPayload.keys["b.json"]

IsSyncPush(r) == r.method = "POST" /\ r.path = pairingSyncDeviceReceive
\* A request that the remote answered 200.
Accepted(r) == r.code = StatusOK

\* C16: the raw-message manager is never locked: after a raw-message POST
\* was answered 200 its ToSend() still returns the ciphertext and every later
\* raw-message POST carries a non-empty body; the account manager is locked
\* exactly when an account POST was answered 200.
C16_RawPushDoesNotLock ==
    /\ ~pem.raw.toSend.locked
    /\ ~pem.raw.received.locked
    /\ \A i \in DOMAIN requests :
          (IsSyncPush(requests[i]) /\ Accepted(requests[i])) =>
              /\ pem_ToSend(pem.raw).kind = "enc"
              /\ \A j \in DOMAIN requests :
                    (j > i /\ IsSyncPush(requests[j])) => requests[j].body.kind = "enc"
    /\ pem.account.toSend.locked <=>
          \E i \in DOMAIN requests : IsAccountPush(requests[i]) /\ Accepted(requests[i])

\* C16 witness: after an accepted account push, two successive
\* PairSyncDevice() calls each pushed a ciphertext that was accepted.
C16_Witness ==
    /\ Len(calls) = 3
    /\ Len(requests) = 3
    /\ IsAccountPush(requests[1]) /\ Accepted(requests[1])
    /\ IsSyncPush(requests[2]) /\ Accepted(requests[2])
    /\ IsSyncPush(requests[3]) /\ Accepted(requests[3])
    /\ requests[2].body.kind = "enc"
    /\ requests[3].body.kind = "enc"
    /\ calls[3].err = NoErr

\* C17: a PairAccount() or PairSyncDevice() call on a Client whose mode is
\* neither Receiving nor Sending returns an error; it issues no request, emits
\* no event, asks nothing of the sync handler and leaves the Client, both
\* managers, the shared payload, the keystore and the database as they were.
C17_UnknownModeOnlyReturnsError ==
    [][(serverMode \notin {Receiving, Sending} /\ calls' # calls) =>
          /\ Len(calls') = Len(calls) + 1
          /\ calls'[Len(calls')].err = Err("unrecognised server mode")
          /\ UNCHANGED <<requests, events, handlerLog, pem, accountPayload, rawPayload,
                         keystore, db, serverChallenge, serverMode, client, rootCAs,
                         lockTrace>>]_vars

\* C17 witness: both calls were made on a Client in an unrecognised mode, on
\* a device that holds an account, and each returned the error.
C17_Witness ==
    /\ serverMode \notin {Receiving, Sending}
    /\ keystore # {}
    /\ Len(calls) = 2
    /\ calls[1] = [op |-> "PairAccount", err |-> Err("unrecognised server mode")]
    /\ calls[2] = [op |-> "PairSyncDevice", err |-> Err("unrecognised server mode")]

IsErrorEvent(e) == e.Type \in {EventTransferError, EventProcessError}

\* C18: every PairAccount() or PairSyncDevice() call of a Client in Receiving
\* or Sending mode that fails returns its error to the caller after having
\* emitted an error event (TransferError or ProcessError).
C18_EveryFailureIsReportedAndReturned ==
    serverMode \in {Receiving, Sending} =>
        \A k \in DOMAIN calls :
            calls[k].err # NoErr =>
                /\ calls[k].err # Panic
                /\ \E e \in EventsOf(k) : IsErrorEvent(events[e])

IsPayloadRequest(r) == IsPush(r) \/ IsPull(r)
TransferEventsOf(k) ==
    {e \in EventsOf(k) : events[e].Type \in {EventTransferSuccess, EventTransferError}}
ProcessEventsOf(k) ==
    {e \in EventsOf(k) : events[e].Type \in {EventProcessSuccess, EventProcessError}}
\* The k-th call performed the payload HTTP exchange, a pull.
Exchanged(k) == \E j \in RequestsOf(k) : IsPayloadRequest(requests[j])
Pulled(k) == \E j \in RequestsOf(k) : IsPull(requests[j])
\* The events of the k-th call are paired as a flow's should be.
EventsPairUp(k) ==
    /\ Exchanged(k) => Cardinality(TransferEventsOf(k)) = 1
    /\ ~Exchanged(k) => TransferEventsOf(k) = {}
    /\ \A p \in ProcessEventsOf(k) :
          /\ Pulled(k)
          /\ \A t \in TransferEventsOf(k) :
                t < p /\ events[t].Type = EventTransferSuccess
    /\ Cardinality(ProcessEventsOf(k)) =
          IF Pulled(k) /\ \E t \in TransferEventsOf(k) : events[t].Type = EventTransferSuccess
          THEN 1 ELSE 0
    /\ calls[k].err = NoErr =>
          /\ \E t \in EventsOf(k) : events[t].Type = EventTransferSuccess
          /\ Pulled(k) => \E p \in EventsOf(k) : events[p].Type = EventProcessSuccess
          /\ \A e \in EventsOf(k) : ~IsErrorEvent(events[e])

\* C19: every call that performs the payload HTTP exchange emits exactly one
\* of TransferSuccess and TransferError for it; a pull emits exactly one of
\* ProcessSuccess and ProcessError after TransferSuccess and none after
\* TransferError; a call that returns success has emitted TransferSuccess
\* (and ProcessSuccess for a pull) and no error event.
C19_EventsOfEveryFlowPairUp ==
    \A k \in DOMAIN calls : EventsPairUp(k)

\* Requests are issued call after call: none is issued for a call once a
\* request of a later call has been issued.
CallsDoNotOverlap ==
    \A i, j \in DOMAIN requests : i < j => requests[i].call <= requests[j].call

\* C20 as stated: one call of PairAccount() or PairSyncDevice() issues at
\* most one HTTP request, in either mode, and calls do not overlap.
C20_OneRoundTripPerCall ==
    /\ \A k \in DOMAIN calls : Cardinality(RequestsOf(k)) <= 1
    /\ CallsDoNotOverlap

\* C20 amended: one call performs at most one payload round trip (a push or
\* a pull); a PairAccount() in Sending mode precedes it with one round trip
\* to the challenge endpoint, so it issues up to two requests and every other
\* call at most one; a call has completed before a request of another call
\* is issued.
C20_OnePayloadRoundTripPerCall ==
    /\ \A k \in DOMAIN calls :
          /\ Cardinality({j \in RequestsOf(k) : IsPayloadRequest(requests[j])}) <= 1
          /\ Cardinality(RequestsOf(k)) <=
                IF calls[k].op = "PairAccount" /\ serverMode = Sending THEN 2 ELSE 1
          /\ \A j \in RequestsOf(k) :
                IsPayloadRequest(requests[j]) \/ IsChallengeRequest(requests[j])
    /\ \A j \in DOMAIN requests : requests[j].call \in DOMAIN calls
    /\ CallsDoNotOverlap

\* C20 witness: a PairAccount() in Sending mode made two round trips, to
\* the challenge endpoint and then for the payload, and a later call issued
\* its own request after it.
C20_Witness ==
    /\ Len(calls) = 2
    /\ calls[1].op = "PairAccount"
    /\ Len(requests) >= 3
    /\ requests[1].call = 1 /\ IsChallengeRequest(requests[1])
    /\ requests[2].call = 1 /\ IsAccountPull(requests[2])
    /\ requests[3].call = 2

\* The shared payload holds no account identity.
NoIdentity(ap) == ap.multiaccount.nil \/ ap.multiaccount.KeyUID = ""
\* The call that the step has just made.
LastCall == calls[Len(calls)]

\* C21: a PairSyncDevice() in Receiving mode made while the shared
\* AccountPayload holds no account identity returns the Mount error: the sync
\* handler is not asked for a blob, the slots of the raw-message manager and
\* its blob are as before, and no request is issued and no event emitted.
C21_MountWithoutIdentityFails ==
    [][(calls' # calls /\ serverMode = Receiving /\ LastCall'.op = "PairSyncDevice"
            /\ NoIdentity(accountPayload)) =>
          /\ LastCall'.err = Err("no known KeyUID when loading raw messages")
          /\ UNCHANGED <<handlerLog, pem, rawPayload, requests, events>>]_vars

\* C21 witness: PairAccount() failed to load the account, and the
\* PairSyncDevice() that followed returned the error without a request.
C21_Witness ==
    /\ serverMode = Receiving
    /\ Len(calls) = 2
    /\ calls[1].op = "PairAccount"
    /\ calls[2] = [op |-> "PairSyncDevice",
                   err |-> Err("no known KeyUID when loading raw messages")]
    /\ NoIdentity(accountPayload)
    /\ requests = <<>>
    /\ handlerLog = <<>>

\* The outbound slot of the manager whose flow issued the push r.
OutboundOf(r) == IF IsAccountPush(r) THEN pem.account.toSend ELSE pem.raw.toSend
\* No request after the i-th goes to the path of the i-th.
IsLastToPath(i) ==
    \A j \in DOMAIN requests : j > i => requests[j].path # requests[i].path

\* C22: the body of every POST is empty or a ciphertext under the
\* session key, and the body of the latest POST of a flow is empty or the
\* ciphertext held in the outbound slot of the flow's manager, which is not
\* the slot's plain text (the marshalled payload or the raw sync blob).
C22_OnlyCiphertextIsPosted ==
    \A i \in DOMAIN requests :
        IsPush(requests[i]) =>
            LET body == requests[i].body
                slot == OutboundOf(requests[i])
            IN  /\ body # Nil =>
                      body.kind = "enc" /\ body.key = connectionParams.aesKey
                /\ (IsLastToPath(i) /\ body # Nil) =>
                      /\ body = slot.encrypted
                      /\ body.pt = slot.plain
                      /\ body # slot.plain

\* C22 witness: the account and the sync blob were both pushed, each POST
\* carrying the ciphertext of its manager's outbound slot.
C22_Witness ==
    /\ Len(requests) = 2
    /\ IsAccountPush(requests[1]) /\ IsSyncPush(requests[2])
    /\ requests[1].body = pem.account.toSend.encrypted
    /\ requests[2].body = pem.raw.toSend.encrypted
    /\ pem.account.toSend.plain.kind = "pb"
    /\ pem.raw.toSend.plain.kind = "raw"
    /\ requests[1].body.pt = pem.account.toSend.plain
    /\ requests[2].body.pt = pem.raw.toSend.plain

\* The session key as bytes in the clear.
KeyInClear == Raw(connectionParams.aesKey)

\* C23: the session key is in no log record and in no request: no
\* operation logs a field whose value is the key, and no request carries the
\* key in the clear as its body or as its challenge header.
C23_KeyNeverLoggedOrSent ==
    /\ \A l \in logged : l.value # connectionParams.aesKey
    /\ \A i \in DOMAIN requests :
          /\ requests[i].body # KeyInClear
          /\ requests[i].header \notin {KeyInClear, Base58Encode(KeyInClear)}

\* C24: every PairAccount() and PairSyncDevice() call returns, also when
\* the remote never answers a request: no call is left waiting for an answer,
\* and a request without an answer ends its call with the transport error of
\* the timeout and a TransferError event.
C24_EveryCallReturns ==
    \A k \in DOMAIN calls :
        /\ calls[k].err # Blocked
        /\ (\E j \in RequestsOf(k) : requests[j].code = 0 /\ IsPayloadRequest(requests[j])) =>
              \E e \in EventsOf(k) : events[e].Type = EventTransferError

\* ap holds what the local source holds: every key file of the configured
\* keystore directory, the account of the configured KeyUID, and the password
\* the repository was configured with.
LoadedFromSource(ap) ==
    /\ DOMAIN ap.keys = {n \in FileNames : HasFile(keystore, config.KeystorePath, n)}
    /\ \A n \in DOMAIN ap.keys : ap.keys[n] = FileData(keystore, config.KeystorePath, n)
    /\ ap.multiaccount = GetAccount(db, config.KeyUID).account
    /\ ap.password = accountPayload.password

FreshSlots(m) == m.toSend = NewEncryptionPayload /\ m.received = NewEncryptionPayload

\* C26: ResetPayload() leaves both slots of its manager fresh, so that
\* ToSend() and Received() return empty; the account manager's also empties
\* the shared AccountPayload and the raw-message manager's empties its blob.
\* Received() turns non-empty again only by a successful Decrypt (alone or
\* in Receive), ToSend() only by a successful Mount (a successful Encrypt).
C26_ResetLeavesFreshSlots ==
    [][/\ ret'.op = "ResetPayload" =>
            /\ FreshSlots(pem'.account)
            /\ pem_ToSend(pem'.account) = Nil /\ pem_Received(pem'.account) = Nil
            /\ accountPayload'.keys = EmptyKeys
            /\ accountPayload'.multiaccount.nil
            /\ accountPayload'.password = ""
       /\ ret'.op = "rmpm.ResetPayload" =>
            /\ FreshSlots(pem'.raw)
            /\ pem_ToSend(pem'.raw) = Nil /\ pem_Received(pem'.raw) = Nil
            /\ IsEmpty(rawPayload')
       /\ (pem_Received(pem.account) = Nil /\ pem_Received(pem'.account) # Nil) =>
            ret' = [op |-> "Decrypt", err |-> NoErr, out |-> Nil]
       /\ (pem_Received(pem.raw) = Nil /\ pem_Received(pem'.raw) # Nil) =>
            ret'.op = "rmpm.Receive"
       /\ (pem_ToSend(pem.account) = Nil /\ pem_ToSend(pem'.account) # Nil) =>
            ret' = [op |-> "Mount", err |-> NoErr, out |-> Nil]
       /\ (pem_ToSend(pem.raw) = Nil /\ pem_ToSend(pem'.raw) # Nil) =>
            ret' = [op |-> "rmpm.Mount", err |-> NoErr, out |-> Nil]]_vars

\* C26 witness: both managers were filled, locked and then reset; the
\* raw-message manager loaded a blob from the handler before.
C26_Witness ==
    /\ ret.op = "rmpm.ResetPayload"
    /\ lockTrace = [account |-> "reset", raw |-> "reset"]
    /\ Len(handlerLog) = 1
    /\ handlerLog[1].fn = "PrepareRawMessage"
    /\ pem = NewManagers(connectionParams.aesKey)
    /\ accountPayload = EmptyAccountPayload
    /\ IsEmpty(rawPayload)

\* The manager that the pull flow of the call op hands the body to.
ManagerOf(op) == IF op = "PairAccount" THEN "account" ELSE "raw"

\* C27: a call of a pull flow hands a body to Receive at most once (it
\* emits at most one process event), and only after its GET to the
\* send-endpoint was answered 200 and the body was read (TransferSuccess
\* comes before the process event); the body handed over is the body of that
\* answer: unless it failed to decrypt, it is the ciphertext of the inbound
\* slot afterwards.  A call that emits no process event has decrypted and
\* persisted nothing.
C27_ReceiveOnceAfterFullRead ==
    [][(calls' # calls /\ serverMode = Sending) =>
        \A k \in {Len(calls) + 1}, m \in {ManagerOf(LastCall'.op)} :
            /\ Cardinality(ProcessEventsOf(k)') <= 1
            /\ \A p \in ProcessEventsOf(k)' :
                /\ \E t \in TransferEventsOf(k)' :
                      t < p /\ events'[t].Type = EventTransferSuccess
                /\ \E j \in RequestsOf(k)' :
                      /\ IsPull(requests'[j])
                      /\ requests'[j].code = StatusOK
                      /\ \/ pem'[m].received.encrypted = requests'[j].got
                         \/ /\ LastCall'.err = Err("DecryptionError")
                            /\ pem' = pem
            /\ ProcessEventsOf(k)' = {} =>
                  UNCHANGED <<pem, accountPayload, rawPayload, keystore, db, handlerLog>>]_vars

\* C27 witness: PairAccount() pulled the account payload, handed the body
\* of the 200 answer to Receive, and Receive decrypted and stored it.
C27_Witness ==
    /\ serverMode = Sending
    /\ Len(calls) = 1
    /\ calls[1] = [op |-> "PairAccount", err |-> NoErr]
    /\ Len(requests) = 2
    /\ IsAccountPull(requests[2])
    /\ requests[2].code = StatusOK
    /\ requests[2].got # Nil
    /\ pem.account.received.encrypted = requests[2].got
    /\ Cardinality(ProcessEventsOf(1)) = 1

\* The slot ep has never held data.
NeverFilled(ep) == ep.plain = Nil /\ ep.encrypted = Nil

\* C28: serverMode stays what the connection string said.  A Client in
\* Receiving mode issues only POST requests to the receive paths, never
\* requests a challenge and never calls Receive (no process event, inbound
\* slots never filled); a Client in Sending mode issues only GET requests and
\* never calls Mount or LockPayload (outbound slots never filled, nothing
\* locked, the sync handler never asked to prepare a blob).
C28_ModeFixesTheFlow ==
    /\ serverMode = connectionParams.serverMode
    /\ serverMode = Receiving =>
          /\ \A i \in DOMAIN requests : IsPush(requests[i])
          /\ \A k \in DOMAIN calls : ProcessEventsOf(k) = {}
          /\ serverChallenge = Nil
          /\ NeverFilled(pem.account.received) /\ NeverFilled(pem.raw.received)
    /\ serverMode = Sending =>
          /\ \A i \in DOMAIN requests :
                requests[i].method = "GET" /\ requests[i].body = Nil
          /\ pem.account.toSend = NewEncryptionPayload
          /\ pem.raw.toSend = NewEncryptionPayload
          /\ lockTrace = [account |-> "never", raw |-> "never"]
          /\ \A i \in DOMAIN handlerLog : handlerLog[i].fn # "PrepareRawMessage"

\* C28 witness: a pulling Client completed PairAccount() and
\* PairSyncDevice() with three GET requests and nothing mounted or locked.
C28_Witness ==
    /\ serverMode = Sending
    /\ Len(calls) = 2
    /\ calls[1] = [op |-> "PairAccount", err |-> NoErr]
    /\ calls[2] = [op |-> "PairSyncDevice", err |-> NoErr]
    /\ Len(requests) = 3
    /\ \A i \in DOMAIN requests : requests[i].method = "GET"
    /\ pem.account.toSend = NewEncryptionPayload
    /\ ~NeverFilled(pem.account.received)
    /\ ~NeverFilled(pem.raw.received)

\* C29: the locked flags of the outbound and the inbound slot of a
\* manager are equal in every reachable state, so whenever Received() is
\* empty because the outbound slot is locked the inbound slot is locked too.
C29_SlotsLockTogether ==
    \A m \in {"account", "raw"} :
        /\ pem[m].toSend.locked = pem[m].received.locked
        /\ (pem_Received(pem[m]) = Nil /\ pem[m].received.plain # Nil) =>
              pem[m].received.locked

\* C29 witness: the manager was locked while its inbound slot held a
\* decrypted payload, which Received() no longer returns.
C29_Witness ==
    /\ ret.op = "LockPayload"
    /\ pem.account.toSend.locked /\ pem.account.received.locked
    /\ pem.account.received.plain # Nil
    /\ pem_Received(pem.account) = Nil

\* C30: EncryptPlain changes neither slot of the manager nor a locked
\* flag, and, locked or not, what it returns without error is a ciphertext
\* under the session key that decrypts to its argument; it fails only when
\* the random source does.
C30_EncryptPlainIsStateless ==
    [][ret'.op = "EncryptPlain" =>
          /\ pem' = pem
          /\ accountPayload' = accountPayload
          /\ ret'.err \in {NoErr, Err("EncryptionError")}
          /\ ret'.err = NoErr =>
                LET d == common_Decrypt(ret'.out, connectionParams.aesKey)
                IN  d.err = NoErr /\ d.out \in Plaintexts]_vars

\* C30 witness: EncryptPlain returned a ciphertext on a locked manager
\* whose outbound slot holds a mounted payload.
C30_Witness ==
    /\ ret.op = "EncryptPlain"
    /\ ret.err = NoErr
    /\ ret.out.kind = "enc"
    /\ ret.out.pt \in Plaintexts
    /\ pem.account.toSend.locked /\ pem.account.received.locked
    /\ pem.account.toSend.encrypted # Nil
    /\ pem_ToSend(pem.account) = Nil

\* The immediate children of the configured keystore directory.
ChildrenOf(ks) == {n \in FileNames : HasFile(ks, config.KeystorePath, n)}
\* The immediate child n is a key record with an address of 40 characters.
IsKeyRecord(ks, n) ==
    LET data == FileData(ks, config.KeystorePath, n)
    IN  ParsesAsKey(data) /\ data.addrLen = AddressLength

\* C31: loadKeys succeeds exactly when every immediate child of the
\* keystore directory is a key record with an address of 40 characters, and
\* then the keys mapping is exactly filename -> file bytes for the immediate
\* children: keys held before are gone and files of subdirectories are not
\* in it.
C31_LoadKeysReadsImmediateChildren ==
    [][ret'.op = "loadKeys" =>
          /\ ret'.err = NoErr <=> \A n \in ChildrenOf(keystore) : IsKeyRecord(keystore, n)
          /\ ret'.err = NoErr =>
                /\ DOMAIN accountPayload'.keys = ChildrenOf(keystore)
                /\ \A n \in ChildrenOf(keystore) :
                      accountPayload'.keys[n] = FileData(keystore, config.KeystorePath, n)]_vars

\* C31 witness: a load succeeded on a directory with one key file and
\* a subdirectory holding a file that is not a key record.
C31_Witness ==
    /\ ret = [op |-> "loadKeys", err |-> NoErr, out |-> Nil]
    /\ keystore = {File(AccountDir, "a.json", GoodKey),
                   File(AccountDir \o <<"backup">>, "b.json", NotAKeyFile)}
    /\ DOMAIN accountPayload.keys = {"a.json"}
    /\ accountPayload.keys["a.json"] = GoodKey

\* C32: a PairAccount() of a pushing Client made after an accepted
\* account push has locked the account manager still runs Mount, which
\* encrypts the payload anew into the outbound slot, and, unless that
\* encryption failed, issues one POST to the receive-account path; the body of
\* that POST is empty.
C32_LockedPushSendsEmptyBody ==
    [][(calls' # calls /\ serverMode = Receiving /\ LastCall'.op = "PairAccount"
            /\ ValidKeystore /\ pem.account.toSend.locked
            /\ \E i \in DOMAIN requests : IsAccountPush(requests[i]) /\ Accepted(requests[i])) =>
          IF LastCall'.err = Err("EncryptionError")
          THEN requests' = requests
          ELSE /\ Len(requests') = Len(requests) + 1
               /\ IsAccountPush(requests'[Len(requests')])
               /\ requests'[Len(requests')].body = Nil
               /\ logged' = pem_Encrypt_log(pem.account)
               /\ IsMountedCiphertext(pem'.account.toSend.encrypted)
               /\ pem'.account.toSend.locked]_vars

\* C32 witness: the first PairAccount() pushed the ciphertext and was
\* accepted; the second was made with another nonce, re-encrypted the payload
\* and posted an empty body.
C32_Witness ==
    /\ Len(calls) = 2
    /\ calls[1] = [op |-> "PairAccount", err |-> NoErr]
    /\ calls[2] = [op |-> "PairAccount", err |-> NoErr]
    /\ Len(requests) = 2
    /\ IsAccountPush(requests[1]) /\ Accepted(requests[1])
    /\ IsAccountCiphertext(requests[1].body)
    /\ IsAccountPush(requests[2])
    /\ requests[2].body = Nil
    /\ pem.account.toSend.encrypted # requests[1].body
    /\ IsAccountCiphertext(pem.account.toSend.encrypted)

\* The types of the events of the k-th call, in the order they were sent.
EventTypesOf(k) ==
    LET es == SelectSeq(events, LAMBDA e : e.call = k)
    IN  [i \in DOMAIN es |-> es[i].Type]

\* C33: when the sync pull of a Client has decrypted the body, the
\* raw-message repository applies it with what the shared AccountPayload holds:
\* if the payload holds a multiaccount the handler is called once with that
\* multiaccount and that password; if it holds none, the call returns an error
\* without calling the handler, having emitted TransferSuccess and then
\* ProcessError.
C33_SyncStoreUsesSharedPayload ==
    [][(calls' # calls /\ serverMode = Sending /\ LastCall'.op = "PairSyncDevice") =>
        \A k \in {Len(calls) + 1} :
          (ProcessEventsOf(k)' # {} /\ LastCall'.err # Err("DecryptionError")) =>
            IF accountPayload.multiaccount.nil
            THEN /\ LastCall'.err = Err("no known multiaccount when storing raw messages")
                 /\ handlerLog' = handlerLog
                 /\ EventTypesOf(k)' = <<EventTransferSuccess, EventProcessError>>
            ELSE /\ Len(handlerLog') = Len(handlerLog) + 1
                 /\ \A i \in DOMAIN handlerLog : handlerLog'[i] = handlerLog[i]
                 /\ LET h == handlerLog'[Len(handlerLog')]
                    IN  /\ h.fn = "HandleRawMessage"
                        /\ h.account = accountPayload.multiaccount
                        /\ h.password = accountPayload.password
                        /\ h.payload = pem'.raw.received.plain]_vars

\* C33 witness: PairAccount() received the account of the remote, and the
\* PairSyncDevice() after it handed the handler that account and its password.
C33_Witness ==
    /\ serverMode = Sending
    /\ calls = <<[op |-> "PairAccount", err |-> NoErr],
                 [op |-> "PairSyncDevice", err |-> NoErr]>>
    /\ Len(handlerLog) = 1
    /\ handlerLog[1].fn = "HandleRawMessage"
    /\ handlerLog[1].account = Alice
    /\ handlerLog[1].password = "pw"
    /\ handlerLog[1].payload = SyncMessages
    /\ config.Password = ""

\* The names of the key entries of the protobuf message pb.
KeyNamesOf(pb) == {pb.keys[i].Name : i \in DOMAIN pb.keys}
\* This step is a Receive of an unlocked account manager that decrypted and
\* unmarshalled its argument.
UnmarshalledByReceive ==
    /\ ret'.op = "Receive"
    /\ ret'.err \notin {Err("DecryptionError"), Err("proto: cannot parse")}
    /\ ~pem.account.toSend.locked

\* C34: a Receive that unmarshals a message merges its keys into the
\* keys the shared AccountPayload already holds: entries absent from the
\* message stay, entries of the message replace entries of the same name.
\* StoreToSource validates and writes that union: a stale entry that does not
\* decrypt with the received password fails the Receive, and a successful
\* Receive has written a file for every entry of the union.
C34_UnmarshalMergesKeys ==
    [][UnmarshalledByReceive =>
        LET pb == pem'.account.received.plain
            old == accountPayload.keys
            new == accountPayload'.keys
        IN  /\ DOMAIN new = DOMAIN old \cup KeyNamesOf(pb)
            /\ \A n \in DOMAIN old \ KeyNamesOf(pb) : new[n] = old[n]
            /\ \A i \in DOMAIN pb.keys : new[pb.keys[i].Name] = pb.keys[i].Data
            /\ (\E n \in DOMAIN new : ~DecryptsWith(new[n], pb.password)) =>
                  /\ ret'.err = Err("could not decrypt key with given password")
                  /\ keystore' = keystore
            /\ ret'.err = NoErr =>
                  \A n \in DOMAIN new : \E f \in keystore' : f.name = n /\ f.data = new[n]]_vars

\* C34 witness: a Receive of a message with the single key a.json failed
\* validation because of the key b.json that an earlier Receive had left in the
\* shared payload.
C34_Witness ==
    /\ ret = [op |-> "Receive", err |-> Err("could not decrypt key with given password"),
              out |-> Nil]
    /\ pem.account.received.plain = RemoteOneKey
    /\ DOMAIN accountPayload.keys = {"a.json", "b.json"}
    /\ accountPayload.keys["b.json"] = OtherPasswordKey

\* C35: ResetPayload() of the account manager leaves the shared
\* AccountPayload without a password, whatever the configuration says, and no
\* operation other than a Receive gives it one again; Mount() validates the
\* keys it loaded with the password of the shared payload, so after a
\* ResetPayload() a keystore whose keys open with the configured password
\* fails validation.
C35_ResetErasesConfiguredPassword ==
    [][/\ ret'.op = "ResetPayload" => accountPayload'.password = ""
       /\ (ret'.op # "Receive" /\ accountPayload.password = "") =>
              accountPayload'.password = ""
       /\ (ret'.op = "Mount"
              /\ ChildrenOf(keystore) # {}
              /\ (\A n \in ChildrenOf(keystore) :
                    /\ IsKeyRecord(keystore, n)
                    /\ DecryptsWith(FileData(keystore, config.KeystorePath, n), config.Password))
              /\ accountPayload.password # config.Password) =>
              /\ ret'.err = Err("could not decrypt key with given password")
              /\ pem' = pem]_vars

\* C35 witness: after a ResetPayload() the Mount() of a device whose keys
\* open with the configured password failed validation.
C35_Witness ==
    /\ ret = [op |-> "Mount", err |-> Err("could not decrypt key with given password"),
              out |-> Nil]
    /\ config.Password = "pw"
    /\ accountPayload.password = ""
    /\ accountPayload.multiaccount.nil
    /\ keystore = SenderDevice.keystore
    /\ pem.account = NewPayloadEncryptionManager(ClientKey)

\* C36: a PairAccount() of a pushing Client whose keystore holds a key
\* that does not decrypt with the configured password returns the validation
\* error: the account record is not read, nothing is encrypted into the
\* outbound slot, no POST is issued and no event is emitted.
C36_MountValidatesBeforeSending ==
    [][(calls' # calls /\ serverMode = Receiving /\ LastCall'.op = "PairAccount"
            /\ (\A n \in ChildrenOf(keystore) : IsKeyRecord(keystore, n))
            /\ (\E f \in ChildrenOf(keystore) :
                  ~DecryptsWith(FileData(keystore, config.KeystorePath, f), config.Password))) =>
          /\ LastCall'.err = Err("could not decrypt key with given password")
          /\ accountPayload'.multiaccount = accountPayload.multiaccount
          /\ UNCHANGED <<pem, requests, events>>]_vars

\* C36 witness: on the device with a key of another password PairAccount()
\* returned the validation error without a request and without an account.
C36_Witness ==
    /\ serverMode = Receiving
    /\ keystore = BadKeyDevice.keystore
    /\ calls = <<[op |-> "PairAccount",
                  err |-> Err("could not decrypt key with given password")]>>
    /\ requests = <<>>
    /\ accountPayload.multiaccount.nil
    /\ DOMAIN accountPayload.keys = {"a.json", "b.json"}
    /\ pem.account.toSend = NewEncryptionPayload

\* C37: a Receive that unmarshals a message sets the password of the
\* shared AccountPayload to the password of the message, and the keys are
\* validated with that password before anything is written: the Receive fails
\* validation exactly when a key does not decrypt with the password of the
\* message, whatever password the configuration holds.
C37_ReceiveValidatesWithReceivedPassword ==
    [][UnmarshalledByReceive =>
        LET pb == pem'.account.received.plain
            keys == accountPayload'.keys
        IN  /\ accountPayload'.password = pb.password
            /\ ret'.err = Err("could not decrypt key with given password") <=>
                  \E n \in DOMAIN keys : ~DecryptsWith(keys[n], pb.password)
            /\ ret'.err = Err("could not decrypt key with given password") =>
                  keystore' = keystore /\ db' = db]_vars

\* C37 witness: a device configured without a password received and
\* stored keys that open with the password of the message.
C37_Witness ==
    /\ ret = [op |-> "Receive", err |-> NoErr, out |-> Nil]
    /\ config.Password = ""
    /\ pem.account.received.plain = RemoteGood
    /\ accountPayload.password = "pw"
    /\ \A n \in DOMAIN accountPayload.keys : ~DecryptsWith(accountPayload.keys[n], config.Password)
    /\ keystore # {}

\* The paths of the requests issued, in order.
PathsRequested == [i \in DOMAIN requests |-> requests[i].path]
\* The order of the requests of a pulling Client.
PullOrder == <<pairingChallenge, pairingSendAccount, pairingSyncDeviceSend>>
IsSyncRequest(r) == r.path \in {pairingSyncDeviceReceive, pairingSyncDeviceSend}

\* C38: StartUpPairingClient runs PairAccount() first and PairSyncDevice()
\* only after PairAccount() returned success: when the setup or PairAccount()
\* fails no sync-device request is issued and the failure is returned; every
\* request of the account flow precedes the requests of the sync flow, and a
\* pulling Client that ran both flows requested the challenge, the account
\* and the sync blob, in that order (the sync request is missing only when
\* encrypting its challenge proof failed).
C38_StartUpRunsAccountThenSync ==
    ret.op = "StartUpPairingClient" =>
        /\ client = "nil" => (calls = <<>> /\ requests = <<>> /\ ret.err # NoErr)
        /\ client = "ready" =>
              /\ Len(calls) \in {1, 2}
              /\ calls[1].op = "PairAccount"
              /\ ret.err = calls[Len(calls)].err
        /\ Len(calls) = 1 =>
              /\ calls[1].err # NoErr
              /\ \A i \in DOMAIN requests : ~IsSyncRequest(requests[i])
        /\ Len(calls) = 2 =>
              /\ calls[1].err = NoErr
              /\ calls[2].op = "PairSyncDevice"
        /\ \A i, j \in DOMAIN requests :
              (IsSyncRequest(requests[i]) /\ ~IsSyncRequest(requests[j])) => j < i
        /\ (serverMode = Sending /\ Len(calls) = 2) =>
              /\ \A i \in DOMAIN requests :
                    /\ i <= 3
                    /\ requests[i].method = "GET"
                    /\ requests[i].path = PullOrder[i]
              /\ Len(requests) >= 2
              /\ calls[2].err # Err("EncryptionError") => Len(requests) = 3

\* C38 witness: a pulling Client started up, and its three requests were
\* answered so that both flows succeeded.
C38_Witness ==
    /\ ret = [op |-> "StartUpPairingClient", err |-> NoErr, out |-> Nil]
    /\ serverMode = Sending
    /\ calls = <<[op |-> "PairAccount", err |-> NoErr],
                 [op |-> "PairSyncDevice", err |-> NoErr]>>
    /\ PathsRequested = PullOrder
    /\ Len(handlerLog) = 1

\* This step is a Receive of a locked account manager whose argument
\* decrypted.
LockedReceiveDecrypted ==
    /\ ret'.op = "Receive"
    /\ pem.account.toSend.locked
    /\ ret'.err # Err("DecryptionError")

\* C39: a Receive of a locked account manager decrypts its argument
\* into the inbound slot, but Received() stays empty, so the empty message is
\* what is unmarshalled: even a body that is no protobuf message raises no
\* parse error, the keys of the shared AccountPayload stay as they were, its
\* password and account record become those of the empty message, and what
\* StoreToSource then writes are files of the keys held before and at most the
\* empty account record.
C39_LockedReceiveIgnoresBody ==
    [][LockedReceiveDecrypted =>
        /\ pem'.account.received.plain # Nil
        /\ common_Decrypt(pem'.account.received.encrypted, pem.account.aesKey)
              = [err |-> NoErr, out |-> pem'.account.received.plain]
        /\ pem_Received(pem'.account) = Nil
        /\ ret'.err # Err("proto: cannot parse")
        /\ accountPayload'.keys = accountPayload.keys
        /\ accountPayload'.password = EmptyPb.password
        /\ accountPayload'.multiaccount = ppm_multiaccountFromProtobuf(EmptyPb.multiaccount)
        /\ (\A f \in keystore' \ keystore :
               f.name \in DOMAIN accountPayload.keys /\ f.data = accountPayload.keys[f.name])
        /\ db' \ db \subseteq {ppm_multiaccountFromProtobuf(EmptyPb.multiaccount)}]_vars

\* C39 witness: a locked manager that held no keys received the account
\* payload of the remote; the payload sits decrypted in the inbound slot, and
\* the shared AccountPayload has none of its keys, its account or its password.
C39_Witness ==
    /\ ret.op = "Receive"
    /\ ret.err # Err("DecryptionError")
    /\ pem.account.toSend.locked
    /\ pem.account.received.plain = RemoteGood
    /\ accountPayload.keys = EmptyKeys
    /\ accountPayload.password = ""
    /\ accountPayload.multiaccount.KeyUID = ""
    /\ keystore = {}

\* C40: a successful applyEditMessage on a message that had not been
\* edited before (EditedAt 0 before the call) has written, before the edited
\* message, an edit that holds the text and the content type the message had
\* before the call.
C40_FirstEditSavesOriginal ==
    [][(ret'.op = "applyEditMessage" /\ ret'.err = NoErr /\ messenger.message.EditedAt = 0) =>
        \A n \in {Len(messenger.persistence)}, original \in {messenger.message} :
            \E i, j \in (n + 1)..Len(messenger'.persistence) :
                /\ i < j
                /\ messenger'.persistence[i].call = "SaveEdit"
                /\ messenger'.persistence[i].edit.MessageId = original.ID
                /\ messenger'.persistence[i].edit.Text = original.Text
                /\ messenger'.persistence[i].edit.ContentType = original.ContentType
                /\ messenger'.persistence[j] =
                      [call |-> "SaveMessages", message |-> messenger'.message]]_vars
====
